---- MODULE Spec2Model ----
(***************************************************************************)
(* A model of the reading-levels pipeline (package rl): the readability    *)
(* metrics of a text (rl/metrics.py), the extraction of an article's text  *)
(* from a parsed page (rl/parsing.py), the scan of the persisted artifacts *)
(* and the per-issue and per-year aggregation (rl/aggregation.py).         *)
(*                                                                         *)
(* Conventions.                                                            *)
(*  - A Python str whose ordering matters (dates, source names) is a       *)
(*    sequence of code points; sorted() compares such sequences            *)
(*    lexicographically.  The falsy strings None and "" are both <<>>:     *)
(*    the code only ever tests them with `or` / `not`.                     *)
(*  - A Python float is an exact rational [n, d] in lowest terms with      *)
(*    d > 0; Optional[float] None is the record with d = 0.  Rounding of   *)
(*    IEEE doubles is outside the model.                                   *)
(*  - A text (article body, paragraph) is a sequence of one-character      *)
(*    strings.                                                             *)
(***************************************************************************)
EXTENDS Integers, Sequences, FiniteSets, TLC

VARIABLES
    pc,             \* position of the running command
    rows,           \* List[ArticleRow] handed to aggregate_per_issue
    per_issue_csv,  \* the rows of per_issue.csv
    per_year_csv,   \* the rows of per_year.csv
    wm_values,      \* the argument of a call of _weighted_mean
    wm_result,      \* what that call returned
    textstat,       \* whether the optional module textstat was imported
    text,           \* the argument of a call of readability_metrics
    metrics,        \* what that call returned
    path,           \* the return statement that call left by
    soup,           \* the parsed page handed to the extraction
    extracted,      \* the text extract_article_text returned
    extracted_dir,  \* the persisted artifacts of each source, in walk order
    scan,           \* where compute_per_article stands in its scan
    ex_store,       \* the extracted artifacts the scraper wrote, by path
    saved,          \* the calls of _save_raw_and_extracted so far, in order
    cache,          \* the cache directory: its subdirectories and its files
    cache_log,      \* the calls of SimpleCache.get and .set so far, in order
    word,           \* a word handed to the syllable counters
    counted,        \* its syllable estimate and its count as a complex word
    page,           \* the parsed page handed to extract_meta
    page_meta,      \* the dictionary extract_meta returned
    issue_url,      \* the issue page get_issue_articles was asked to list
    issue_links,    \* the href of each <a> of that page, in document order
    listed,         \* the list get_issue_articles returned
    fetch_job,      \* the fetch running: its source, its issue date, its URLs
    fetch_i,        \* the position of the loop in those URLs
    fetch_cur,      \* html, text and meta of the article in hand
    raw_store,      \* the files under raw_dir
    fetch_log,      \* what the fetch did so far, in order
    http_req,       \* the call of HttpClient.get: url, use_cache, cfg.max_retries
    cache_at_call,  \* the cache directory when get was called
    http_attempt,   \* attempt, the variable of the retry loop
    http_log,       \* the status of each response so far, 0 for none
    http_last_exc,  \* last_exc
    http_result     \* what get returned or raised

aggVars == <<rows, per_issue_csv, per_year_csv, wm_values, wm_result>>
metricsVars == <<textstat, text, metrics, path>>
extractVars == <<soup, extracted>>
scanVars == <<extracted_dir, scan>>
storeVars == <<ex_store, saved>>
cacheVars == <<cache, cache_log>>
wordVars == <<word, counted>>
pageVars == <<page, page_meta>>
listVars == <<issue_url, issue_links, listed>>
fetchVars == <<fetch_job, fetch_i, fetch_cur, raw_store, fetch_log>>
httpVars == <<http_req, cache_at_call, http_attempt, http_log, http_last_exc,
              http_result>>
restVars == <<listVars, fetchVars, httpVars>>
otherVars == <<storeVars, cacheVars, wordVars, pageVars, restVars>>
vars == <<pc, aggVars, metricsVars, extractVars, scanVars, otherVars>>

(***************************************************************************)
(* Bounds of the model.                                                    *)
(***************************************************************************)
MaxRows == 2        \* article rows handed to aggregate_per_issue
MaxIssues == 3      \* rows of a per_issue.csv handed to aggregate_per_year
MaxEntries == 3     \* (value, weight) entries handed to _weighted_mean
MaxTextLen == 4     \* characters of a text handed to readability_metrics
MaxNodes == 4       \* container and paragraph elements of a parsed page
MaxFiles == 3       \* files under the extracted directory, both sources together
MaxSaves == 2       \* articles saved one after the other
MaxCacheOps == 3    \* calls of SimpleCache.get and .set one after the other
MaxWordLen == 5     \* characters of a word handed to the syllable counters
MaxShortWords == 20 \* words of one letter in a text made of whole words
MaxLongWords == 2   \* words of four letters in such a text
MaxCrumbs == 4      \* elements of a page after its breadcrumb navigation opens
MaxLinks == 3       \* links on an issue page
MaxArticles == 2    \* articles of one fetch
MinWords == 50      \* the words below which the rendered page is tried
MaxRetries == 3     \* the largest cfg.max_retries

(***************************************************************************)
(* Optional[float] as exact rationals.                                     *)
(***************************************************************************)
None == [n |-> 0, d |-> 0]

Abs(x) == IF x < 0 THEN -x ELSE x

RECURSIVE Gcd(_, _)
Gcd(a, b) == IF b = 0 THEN a ELSE Gcd(b, a % b)

\* The rational num/den (den # 0) in lowest terms with a positive denominator.
Rat(num, den) ==
    LET g == Gcd(Abs(num), Abs(den))
        s == IF den < 0 THEN -1 ELSE 1
    IN  [n |-> (s * num) \div g, d |-> (s * den) \div g]

Num(k) == [n |-> k, d |-> 1]

RAdd(a, b) == Rat(a.n * b.d + b.n * a.d, a.d * b.d)
RMul(a, b) == Rat(a.n * b.n, a.d * b.d)
RDivInt(a, k) == Rat(a.n, a.d * k)
RLess(a, b) == a.n * b.d < b.n * a.d

RECURSIVE RSum(_)
RSum(s) == IF s = <<>> THEN Num(0) ELSE RAdd(Head(s), RSum(Tail(s)))

RECURSIVE IntSum(_)
IntSum(s) == IF s = <<>> THEN 0 ELSE Head(s) + IntSum(Tail(s))

\* [f(x) for x in s]
Map(s, F(_)) == [i \in 1..Len(s) |-> F(s[i])]

(***************************************************************************)
(* Ordered strings: sequences of code points, compared as Python compares  *)
(* str (lexicographically, a proper prefix first).                         *)
(***************************************************************************)
NoneStr == <<>>

RECURSIVE StrLess(_, _)
StrLess(s, t) ==
    IF t = <<>> THEN FALSE
    ELSE IF s = <<>> THEN TRUE
    ELSE IF Head(s) # Head(t) THEN Head(s) < Head(t)
    ELSE StrLess(Tail(s), Tail(t))

Digit(k) == 48 + k

\* "magazine" and "web", the two sources compute_per_article scans, in its order.
magazine == <<109, 97, 103, 97, 122, 105, 110, 101>>
web == <<119, 101, 98>>
Sources == <<magazine, web>>

\* d.strftime("%Y-%m-%d") of a datetime [y, m, d] with a four-digit year.
iso_date(dt) ==
    << Digit(dt.y \div 1000), Digit((dt.y \div 100) % 10),
       Digit((dt.y \div 10) % 10), Digit(dt.y % 10), 45,
       Digit(dt.m \div 10), Digit(dt.m % 10), 45,
       Digit(dt.d \div 10), Digit(dt.d % 10) >>

\* datetime.strptime(s, "%Y-%m-%d").year of a string iso_date wrote.
strptime_year(s) ==
    (s[1] - 48) * 1000 + (s[2] - 48) * 100 + (s[3] - 48) * 10 + (s[4] - 48)

(***************************************************************************)
(* sorted() of a finite set of pairwise different dictionary keys: Python  *)
(* compares the tuples (str, str) and (int, str) component by component.   *)
(***************************************************************************)
IssueKeyLess(a, b) ==
    \/ StrLess(a[1], b[1])
    \/ a[1] = b[1] /\ StrLess(a[2], b[2])

YearKeyLess(a, b) ==
    \/ a[1] < b[1]
    \/ a[1] = b[1] /\ StrLess(a[2], b[2])

Range(s) == { s[i] : i \in 1..Len(s) }

\* The keys of a defaultdict in insertion order, after the keys of seq were
\* inserted one by one (acc: the keys inserted so far).
RECURSIVE DictKeys(_, _)
DictKeys(seq, acc) ==
    IF seq = <<>> THEN acc
    ELSE DictKeys(Tail(seq),
                  IF Head(seq) \in Range(acc) THEN acc ELSE Append(acc, Head(seq)))

RECURSIVE SortedIssueKeys(_)
SortedIssueKeys(S) ==
    IF S = {} THEN <<>>
    ELSE LET m == CHOOSE x \in S : \A y \in S : x = y \/ IssueKeyLess(x, y)
         IN  <<m>> \o SortedIssueKeys(S \ {m})

RECURSIVE SortedYearKeys(_)
SortedYearKeys(S) ==
    IF S = {} THEN <<>>
    ELSE LET m == CHOOSE x \in S : \A y \in S : x = y \/ YearKeyLess(x, y)
         IN  <<m>> \o SortedYearKeys(S \ {m})

(***************************************************************************)
(* rl/metrics.py.  Characters are one-character strings.                   *)
(***************************************************************************)
LowerCase ==
    << "a", "b", "c", "d", "e", "f", "g", "h", "i", "j", "k", "l", "m",
       "n", "o", "p", "q", "r", "s", "t", "u", "v", "w", "x", "y", "z" >>
UpperCase ==
    << "A", "B", "C", "D", "E", "F", "G", "H", "I", "J", "K", "L", "M",
       "N", "O", "P", "Q", "R", "S", "T", "U", "V", "W", "X", "Y", "Z" >>

\* What str.strip() strips.
Whitespace == {" ", "\t", "\n", "\r", "\f"}

\* _WORD_RE = [A-Za-z']+, _SENTENCE_RE = [.!?]+, _VOWEL_RE = [aeiouy]+ (re.I)
WordChars == Range(LowerCase) \cup Range(UpperCase) \cup {"'"}
SentenceChars == {".", "!", "?"}
VowelChars == {"a", "e", "i", "o", "u", "y", "A", "E", "I", "O", "U", "Y"}

\* str.lower() of one character.
lower(c) ==
    IF c \in Range(UpperCase)
    THEN LowerCase[CHOOSE i \in 1..Len(UpperCase) : UpperCase[i] = c]
    ELSE c

RECURSIVE LStrip(_)
LStrip(t) == IF t # <<>> /\ Head(t) \in Whitespace THEN LStrip(Tail(t)) ELSE t

RECURSIVE RStrip(_)
RStrip(t) ==
    IF t # <<>> /\ t[Len(t)] \in Whitespace THEN RStrip(SubSeq(t, 1, Len(t) - 1)) ELSE t

\* str.strip()
Strip(t) == RStrip(LStrip(t))

\* re.findall of the pattern [S]+ : the maximal runs of characters of S in t
\* (cur: the run under way, acc: the runs found).
RECURSIVE FindRuns(_, _, _, _)
FindRuns(t, S, cur, acc) ==
    IF t = <<>> THEN (IF cur = <<>> THEN acc ELSE Append(acc, cur))
    ELSE IF Head(t) \in S THEN FindRuns(Tail(t), S, Append(cur, Head(t)), acc)
    ELSE FindRuns(Tail(t), S, <<>>, IF cur = <<>> THEN acc ELSE Append(acc, cur))

\* re.split of the pattern [S]+ : the pieces of t between the maximal runs of
\* characters of S, empty pieces included (cur: the piece under way, inSep:
\* whether the previous character was of S).
RECURSIVE SplitRuns(_, _, _, _, _)
SplitRuns(t, S, cur, inSep, acc) ==
    IF t = <<>> THEN Append(acc, cur)
    ELSE IF Head(t) \in S
         THEN IF inSep THEN SplitRuns(Tail(t), S, cur, TRUE, acc)
              ELSE SplitRuns(Tail(t), S, <<>>, TRUE, Append(acc, cur))
    ELSE SplitRuns(Tail(t), S, Append(cur, Head(t)), FALSE, acc)

Max(a, b) == IF a >= b THEN a ELSE b

_tokenize_words(t) == FindRuns(t, WordChars, <<>>, <<>>)

\* A slip: every segment that is not empty counted, blank ones too.
_count_sentences_not_empty(t) ==
    LET parts == SplitRuns(t, SentenceChars, <<>>, FALSE, <<>>)
    IN  Max(1, Len(SelectSeq(parts, LAMBDA p : p # <<>>)))

_count_sentences(t) ==
    LET parts == SplitRuns(t, SentenceChars, <<>>, FALSE, <<>>)
    IN  Max(1, Len(SelectSeq(parts, LAMBDA p : Strip(p) # <<>>)))

EndsWith(w, suffix) ==
    /\ Len(w) >= Len(suffix)
    /\ SubSeq(w, Len(w) - Len(suffix) + 1, Len(w)) = suffix

\* A slip: the final e dropped after an l as well.
_count_syllables_in_word_le_dropped(wd) ==
    LET w == [i \in 1..Len(wd) |-> lower(wd[i])]
        stem == IF Len(w) > 2 /\ EndsWith(w, <<"e">>)
                THEN SubSeq(w, 1, Len(w) - 1)
                ELSE w
    IN  Max(1, Len(FindRuns(stem, VowelChars, <<>>, <<>>)))

_count_syllables_in_word(wd) ==
    LET w == [i \in 1..Len(wd) |-> lower(wd[i])]
        stem == IF Len(w) > 2 /\ EndsWith(w, <<"e">>) /\ ~EndsWith(w, <<"l", "e">>)
                THEN SubSeq(w, 1, Len(w) - 1)
                ELSE w
    IN  Max(1, Len(FindRuns(stem, VowelChars, <<>>, <<>>)))

_count_syllables(words) ==
    IntSum([i \in 1..Len(words) |-> _count_syllables_in_word(words[i])])

_count_complex_words(words) ==
    Len(SelectSeq(words, LAMBDA w : _count_syllables_in_word(w) >= 3))

\* A slip: the text tested and scored as given, not stripped.
NotStripped(t) == t

\* text = text.strip(), the first statement of readability_metrics.
Stripped(t) == Strip(t)

\* The dictionary readability_metrics returns.
Metrics(nw, ns, g, d, f) ==
    [num_words |-> nw, num_sentences |-> ns,
     gunning_fog |-> g, dale_chall |-> d, flesch_reading_ease |-> f]

RSub(a, b) == RAdd(a, [n |-> -b.n, d |-> b.d])

\* A slip: the early return for a text without words left out, the scores
\* computed as for one word.
NoWordsResultScored(num_sentences) ==
    Metrics(0, num_sentences, Num(0), Num(0), Num(0))

\* The return of readability_metrics for a non-empty text without words.
NoWordsResult(num_sentences) == Metrics(0, num_sentences, None, None, None)

\* A slip: the constant added from pdw = 5.0 on.
PdwAtLeastFive(pdw) == ~RLess(pdw, Num(5))

\* pdw > 5.0
PdwAboveFive(pdw) == RLess(Num(5), pdw)

\* The from-scratch computation of readability_metrics for a stripped,
\* non-empty text.
NativeMetrics(t) ==
    LET words == _tokenize_words(t)
        num_words == Len(words)
        num_sentences == _count_sentences(t)
        syllables == _count_syllables(words)
        complex_words == _count_complex_words(words)
    IN  IF num_words = 0 THEN NoWordsResult(num_sentences)
        ELSE LET asl == Rat(num_words, Max(1, num_sentences))
                 asw == Rat(syllables, num_words)
                 flesch == RSub(RSub(Rat(206835, 1000), RMul(Rat(1015, 1000), asl)),
                                RMul(Rat(846, 10), asw))
                 perc_complex == RMul(Rat(complex_words, num_words), Num(100))
                 gunning == RMul(Rat(4, 10), RAdd(asl, perc_complex))
                 difficult == Len(SelectSeq(words, LAMBDA w : Len(w) > 3))
                 pdw == RMul(Rat(difficult, num_words), Num(100))
                 dale0 == RAdd(RMul(Rat(1579, 10000), pdw), RMul(Rat(496, 10000), asl))
                 dale == IF PdwAboveFive(pdw) THEN RAdd(dale0, Rat(36365, 10000))
                         ELSE dale0
             IN  Metrics(num_words, num_sentences, gunning, dale, flesch)

\* The return of readability_metrics for a text that strips to nothing.
EmptyTextResult == Metrics(0, 0, None, None, None)

\* What textstat may answer for a text: any floats and counts; the library
\* is not part of the repository.
TextstatResults ==
    { Metrics(0, 0, Num(0), Num(0), Rat(206835, 1000)),
      Metrics(3, 1, Rat(12, 10), Rat(5, 10), Num(90)) }

(***************************************************************************)
(* rl/utils.py: slugify and safe_filename, over strings of one-character   *)
(* strings.                                                                *)
(***************************************************************************)
Digits == {"0", "1", "2", "3", "4", "5", "6", "7", "8", "9"}

\* _slugify_re = [^a-z0-9\-]+ : the characters it leaves alone.
SlugChars == Range(LowerCase) \cup Digits \cup {"-"}

\* safe_filename's [^a-zA-Z0-9._\-/] : the characters it leaves alone.
FilenameChars ==
    Range(LowerCase) \cup Range(UpperCase) \cup Digits \cup {".", "_", "-", "/"}

\* _whitespace_re.sub("-", text): every maximal run of whitespace becomes one
\* "-" (inRun: the previous character was whitespace).
RECURSIVE SubWhitespace(_, _)
SubWhitespace(t, inRun) ==
    IF t = <<>> THEN <<>>
    ELSE IF Head(t) \in Whitespace
         THEN (IF inRun THEN <<>> ELSE <<"-">>) \o SubWhitespace(Tail(t), TRUE)
         ELSE <<Head(t)>> \o SubWhitespace(Tail(t), FALSE)

\* _slugify_re.sub("-", text): every maximal run of characters outside
\* [a-z0-9-] becomes one "-".
RECURSIVE SubNonSlug(_, _)
SubNonSlug(t, inRun) ==
    IF t = <<>> THEN <<>>
    ELSE IF Head(t) \notin SlugChars
         THEN (IF inRun THEN <<>> ELSE <<"-">>) \o SubNonSlug(Tail(t), TRUE)
         ELSE <<Head(t)>> \o SubNonSlug(Tail(t), FALSE)

RECURSIVE LStripDash(_)
LStripDash(t) == IF t # <<>> /\ Head(t) = "-" THEN LStripDash(Tail(t)) ELSE t

\* str.rstrip("-")
RECURSIVE RStripDash(_)
RStripDash(t) ==
    IF t # <<>> /\ t[Len(t)] = "-" THEN RStripDash(SubSeq(t, 1, Len(t) - 1)) ELSE t

untitled == <<"u", "n", "t", "i", "t", "l", "e", "d">>

slugify(text_, max_len) ==
    LET lowered == [i \in 1..Len(Strip(text_)) |-> lower(Strip(text_)[i])]
        dashed == SubNonSlug(SubWhitespace(lowered, FALSE), FALSE)
        trimmed == RStripDash(LStripDash(dashed))
        cut == IF Len(trimmed) > max_len
               THEN RStripDash(SubSeq(trimmed, 1, max_len))
               ELSE trimmed
    IN  IF cut = <<>> THEN untitled ELSE cut

safe_filename(path_) ==
    [i \in 1..Len(path_) |-> IF path_[i] \in FilenameChars THEN path_[i] ELSE "_"]

(***************************************************************************)
(* rl/ny_scraper.py: _save_raw_and_extracted.  A datetime is [y, m, d],    *)
(* None is NoDate; a title is a string, None and "" both <<>>.             *)
(***************************************************************************)
NoDate == [y |-> 0, m |-> 0, d |-> 0]

Article(url, title, published, issue_date, source, text_) ==
    [url |-> url, title |-> title, published |-> published,
     issue_date |-> issue_date, source |-> source, text |-> text_]

\* article.published.year if article.published else
\* (article.issue_date.year if article.issue_date else 1970)
ArticleYear(article) ==
    IF article.published # NoDate THEN article.published.y
    ELSE IF article.issue_date # NoDate THEN article.issue_date.y
    ELSE 1970

\* slug = slugify(article.title or article.url), max_len left at its default
ArticleSlug(article) ==
    slugify(IF article.title # <<>> THEN article.title ELSE article.url, 80)

\* ex_path: <extracted_dir>/<source>/year=<year>/<slug>.json
ExPath(article) ==
    [source |-> article.source, year |-> ArticleYear(article),
     name |-> safe_filename(ArticleSlug(article) \o <<".", "j", "s", "o", "n">>)]

\* The JSON object written to ex_path.
Meta(article) ==
    [url |-> article.url, title |-> article.title,
     published |-> IF article.published # NoDate THEN iso_date(article.published)
                   ELSE NoneStr,
     issue_date |-> IF article.issue_date # NoDate THEN iso_date(article.issue_date)
                    ELSE NoneStr,
     source |-> article.source, num_chars |-> Len(article.text),
     text |-> article.text]

\* open(ex_path, "w") and json.dump: the file at the path is made or replaced.
WriteFile(store, path_, content) ==
    [q \in DOMAIN store \cup {path_} |-> IF q = path_ THEN content ELSE store[q]]

(***************************************************************************)
(* rl/cache.py: SimpleCache.  Keys are strings, values are bytes (lists of  *)
(* integers); Optional[bytes] is [some, bytes].  The file system does what  *)
(* it is asked: no call fails.                                              *)
(***************************************************************************)
\* sha1_hex(key) of the keys of the model: its first two hexadecimal digits
\* and the whole digest.
sha1_hex(key) ==
    CASE key = "o" -> [head |-> "7a", hex |-> "7a81af3e591ac713f81ea1efe93dcf36157d8376"]
      [] key = "v" -> [head |-> "7a", hex |-> "7a38d8cbd20d9932ba948efaa364bb62651d5ad4"]
      [] key = "a" -> [head |-> "86", hex |-> "86f7e437faa5a7fce15d1ddcb9eaeaea377667b8"]

\* A slip: the file named after the first two digits only.
_path_for_head_only(key) ==
    [subdir |-> sha1_hex(key).head, name |-> sha1_hex(key).head]

\* <cache_dir>/<digest[:2]>/<digest>.bin
_path_for(key) ==
    [subdir |-> sha1_hex(key).head, name |-> sha1_hex(key).hex]

SomeBytes(b) == [some |-> TRUE, bytes |-> b]
NoBytes == [some |-> FALSE, bytes |-> <<>>]

\* The cache directory after _path_for(key): os.makedirs(subdir, exist_ok=True)
MakeSubdir(c, key) == [c EXCEPT !.dirs = @ \cup {_path_for(key).subdir}]

\* What SimpleCache.get(key) returns.
cache_get(c, key) ==
    IF _path_for(key) \in DOMAIN c.files
    THEN SomeBytes(c.files[_path_for(key)])
    ELSE NoBytes

\* The cache directory after SimpleCache.set(key, value).
cache_set(c, key, value) ==
    [MakeSubdir(c, key) EXCEPT !.files = WriteFile(@, _path_for(key), value)]

(***************************************************************************)
(* rl/parsing.py.  A parsed page (BeautifulSoup over lxml) is the list of  *)
(* its container and paragraph elements in document order, each with its   *)
(* nesting depth: element j lies inside element i when j comes after i and  *)
(* every element from i+1 to j is deeper than i.  A <p> holds text          *)
(* fragments (its strings) and no element of interest.  When the page has a *)
(* <body>, it is the first element of the list and the parser has put every *)
(* other one inside it.                                                     *)
(***************************************************************************)
Selector(tag, cls) == [tag |-> tag, cls |-> cls]

_BODY_SELECTORS ==
    << Selector("article", ""),
       Selector("main", ""),
       Selector("div", "article__body"),
       Selector("div", "ArticleBody__content"),
       Selector("section", "article-body"),
       Selector("div", "Body__inner-container"),
       Selector("div", "body__inner-container") >>

Element(tag, cls, depth, strings) ==
    [tag |-> tag, cls |-> cls, depth |-> depth, strings |-> strings]

\* Whether the element matches the CSS selector tag or tag.class.
Matches(sel, el) == el.tag = sel.tag /\ (sel.cls = "" \/ el.cls = sel.cls)

\* soup.select_one(sel): the index of the first matching element, 0 for None.
select_one(nodes, sel) ==
    IF \E i \in 1..Len(nodes) : Matches(sel, nodes[i])
    THEN CHOOSE i \in 1..Len(nodes) :
           /\ Matches(sel, nodes[i])
           /\ \A j \in 1..(i - 1) : ~Matches(sel, nodes[j])
    ELSE 0

\* Whether element j lies inside element i; index 0 is the document itself.
Inside(nodes, i, j) ==
    \/ i = 0
    \/ i < j /\ \A k \in (i + 1)..j : nodes[k].depth > nodes[i].depth

\* sep.join(parts)
RECURSIVE Join(_, _)
Join(parts, sep) ==
    IF parts = <<>> THEN <<>>
    ELSE IF Len(parts) = 1 THEN parts[1]
    ELSE parts[1] \o sep \o Join(Tail(parts), sep)

\* p.get_text(" ", strip=True): the stripped, non-empty strings of the
\* element joined by a blank.
get_text(el) ==
    Join(SelectSeq([i \in 1..Len(el.strings) |-> Strip(el.strings[i])],
                   LAMBDA t : t # <<>>), <<" ">>)

\* _collect_paragraphs(el) for the element of index root.
_collect_paragraphs(nodes, root) ==
    LET ps == SelectSeq([j \in 1..Len(nodes) |-> j],
                        LAMBDA j : nodes[j].tag = "p" /\ Inside(nodes, root, j))
        txts == [k \in 1..Len(ps) |-> get_text(nodes[ps[k]])]
    IN  SelectSeq(txts, LAMBDA txt : txt # <<>> /\ Len(txt) > 1)

\* soup.body: the index of the <body> element, 0 for None.
Body(nodes) == select_one(nodes, Selector("body", ""))

\* A slip: body = soup.body alone, a page without a <body> giving no paragraph.
FallbackParagraphsBodyOnly(nodes) ==
    IF Body(nodes) # 0 THEN _collect_paragraphs(nodes, Body(nodes)) ELSE <<>>

\* body = soup.body or soup; paras = _collect_paragraphs(body)
FallbackParagraphs(nodes) == _collect_paragraphs(nodes, Body(nodes))

\* A slip: a container of a single paragraph accepted.
AcceptedWithOne(paras) == Len(paras) >= 1

\* len(paras) >= 2
Accepted(paras) == Len(paras) >= 2

\* The loop of extract_article_text from selector i on, then the fallback:
\* the paragraphs that are joined and returned.
RECURSIVE ExtractFrom(_, _)
ExtractFrom(nodes, i) ==
    IF i > Len(_BODY_SELECTORS) THEN FallbackParagraphs(nodes)
    ELSE LET container == select_one(nodes, _BODY_SELECTORS[i])
             paras == IF container # 0 THEN _collect_paragraphs(nodes, container)
                      ELSE <<>>
         IN  IF container # 0 /\ Accepted(paras) THEN paras
             ELSE ExtractFrom(nodes, i + 1)

\* The text extract_article_text returns for the parsed page.
extract_article_text(nodes) == Join(ExtractFrom(nodes, 1), <<"\n", "\n">>)

(***************************************************************************)
(* rl/parsing.py: extract_meta.  Of the parsed page it reads: the string of *)
(* the <title>; the content of the first meta og:title, article:            *)
(* published_time and article:section; for each of the four author          *)
(* selectors the content or text of its first match; and the elements       *)
(* around the breadcrumb navigation, in document order with their depths.   *)
(* Each is an Optional[str], None when the page has no such element.        *)
(***************************************************************************)
\* An Optional[str]: None, or the string.
Absent == <<>>
Some(str) == <<str>>

\* if x: of an Optional[str]
Truthy(opt) == opt # Absent /\ opt[1] # <<>>

\* tag.get_text(strip=True): the stripped, non-empty strings joined.
get_text_strip(el) ==
    Join(SelectSeq([i \in 1..Len(el.strings) |-> Strip(el.strings[i])],
                   LAMBDA t : t # <<>>), <<>>)

\* The parent of element j: the last element before it that is less deep;
\* 0 for the document.
ParentOf(nodes, j) ==
    LET before == { i \in 1..(j - 1) : nodes[i].depth < nodes[j].depth }
    IN  IF before = {} THEN 0 ELSE CHOOSE i \in before : \A k \in before : k <= i

\* :last-of-type: no later element of the same parent has the same tag.
LastOfType(nodes, j) ==
    ~\E k \in (j + 1)..Len(nodes) :
        /\ nodes[k].tag = nodes[j].tag
        /\ ParentOf(nodes, k) = ParentOf(nodes, j)

\* Whether element j matches "nav.breadcrumbs a:last-of-type".
MatchesBreadcrumbLink(nodes, j) ==
    /\ nodes[j].tag = "a"
    /\ LastOfType(nodes, j)
    /\ \E i \in 1..(j - 1) :
          /\ nodes[i].tag = "nav" /\ nodes[i].cls = "breadcrumbs"
          /\ Inside(nodes, i, j)

\* soup.select_one("nav.breadcrumbs a:last-of-type"): the index of the first
\* match in document order, 0 for None.
select_breadcrumb(nodes) ==
    LET hits == { j \in 1..Len(nodes) : MatchesBreadcrumbLink(nodes, j) }
    IN  IF hits = {} THEN 0 ELSE CHOOSE j \in hits : \A k \in hits : j <= k

\* The loop over the author selectors from the i-th on: the first content
\* that is not empty.
RECURSIVE AuthorFrom(_, _)
AuthorFrom(authors, i) ==
    IF i > Len(authors) THEN Absent
    ELSE IF Truthy(authors[i]) THEN authors[i]
    ELSE AuthorFrom(authors, i + 1)

SectionOf(pg) ==
    IF Truthy(pg.section) THEN pg.section
    ELSE LET bc == select_breadcrumb(pg.nodes)
         IN  IF bc # 0 THEN Some(get_text_strip(pg.nodes[bc])) ELSE Absent

extract_meta(pg) ==
    [title |-> IF Truthy(pg.og_title) THEN Some(Strip(pg.og_title[1]))
               ELSE IF Truthy(pg.title_string) THEN Some(Strip(pg.title_string[1]))
               ELSE Absent,
     author |-> AuthorFrom(pg.authors, 1),
     date |-> IF Truthy(pg.published_time) THEN pg.published_time ELSE Absent,
     section |-> SectionOf(pg)]

(***************************************************************************)
(* rl/ny_scraper.py: get_issue_articles.  An href and a URL are sequences   *)
(* of code points.                                                          *)
(***************************************************************************)
base_url ==
    <<104, 116, 116, 112, 115, 58, 47, 47, 119, 119, 119, 46, 110, 101,
      119, 121, 111, 114, 107, 101, 114, 46, 99, 111, 109>>

MagazinePrefix ==
    <<47, 109, 97, 103, 97, 122, 105, 110, 101, 47>>

StartsWith(str, prefix) ==
    Len(str) >= Len(prefix) /\ SubSeq(str, 1, Len(prefix)) = prefix

\* \d and [\w\-] over ASCII
IsDigitCp(c) == c \in 48..57
IsWordOrDashCp(c) == c \in (48..57) \cup (65..90) \cup (97..122) \cup {95, 45}

\* _MAG_ARTICLE_RE.match(href): ^/magazine/\d{4}/\d{2}/\d{2}/[\w\-]+/?$,
\* where $ also matches before a final newline.
_MAG_ARTICLE_RE(href) ==
    /\ Len(href) >= 22
    /\ SubSeq(href, 1, 10) = MagazinePrefix
    /\ \A i \in {11, 12, 13, 14, 16, 17, 19, 20} : IsDigitCp(href[i])
    /\ \A i \in {15, 18, 21} : href[i] = 47
    /\ LET n1 == IF href[Len(href)] = 10 THEN Len(href) - 1 ELSE Len(href)
           n2 == IF n1 >= 22 /\ href[n1] = 47 THEN n1 - 1 ELSE n1
       IN  /\ n2 >= 22
           /\ \A i \in 22..n2 : IsWordOrDashCp(href[i])

\* s.rstrip("/") and s.lstrip("/")
RECURSIVE RStripSlash(_)
RStripSlash(str) ==
    IF str # <<>> /\ str[Len(str)] = 47 THEN RStripSlash(SubSeq(str, 1, Len(str) - 1))
    ELSE str

RECURSIVE LStripSlash(_)
LStripSlash(str) ==
    IF str # <<>> /\ Head(str) = 47 THEN LStripSlash(Tail(str)) ELSE str

_abs(base, href) ==
    IF StartsWith(href, <<104, 116, 116, 112>>) THEN href
    ELSE RStripSlash(base) \o <<47>> \o LStripSlash(href)

RECURSIVE SortedStrs(_)
SortedStrs(S) ==
    IF S = {} THEN <<>>
    ELSE LET m == CHOOSE x \in S : \A y \in S : x = y \/ StrLess(x, y)
         IN  <<m>> \o SortedStrs(S \ {m})

\* get_issue_articles of a page with the given hrefs.
get_issue_articles(hrefs) ==
    LET selected == SelectSeq(hrefs, LAMBDA h : StartsWith(h, MagazinePrefix))
        matching == SelectSeq(selected, _MAG_ARTICLE_RE)
    IN  SortedStrs({ _abs(base_url, matching[i]) : i \in 1..Len(matching) })

(***************************************************************************)
(* rl/ny_scraper.py: the loop of fetch_magazine_issue and of                *)
(* fetch_web_for_issue_week over the articles.  A page (html) is the record *)
(* of what extract_article_text and the date parsing make of it: its text,  *)
(* its title, its published date, and whether the browser rendered it.      *)
(***************************************************************************)
\* len(text.split()): the maximal runs of characters that are not whitespace.
split_count(t) ==
    Cardinality({ i \in 1..Len(t) :
                    /\ t[i] \notin Whitespace
                    /\ (i = 1 \/ t[i - 1] \in Whitespace) })

\* A slip: the rendered page tried also at exactly 50 words.
NeedsRenderedAtFifty(t) == t = <<>> \/ split_count(t) <= MinWords

\* not text or len(text.split()) < 50
NeedsRendered(t) == t = <<>> \/ split_count(t) < MinWords

\* The raw path: <raw_dir>/<source>/year=<issue year>/<slug>.html
RawPath(job, cur, url) ==
    [source |-> job.source, year |-> job.issue_date.y,
     name |-> safe_filename(slugify(IF cur.title # <<>> THEN cur.title ELSE url, 80)
                            \o <<".", "h", "t", "m", "l">>)]

\* The Article built of the page in hand; a magazine article has no
\* published date.
FetchedArticle(job, cur, url) ==
    Article(url, cur.title,
            IF job.source = magazine THEN NoDate ELSE cur.published,
            job.issue_date, job.source, cur.text)

(***************************************************************************)
(* rl/http.py: HttpClient.get.                                              *)
(***************************************************************************)
\* The statuses get backs off on.
SoftBlocks == {403, 429, 503}

\* r.raise_for_status() raises for a status from 400 to 599.
RaisesForStatus(status) == status \in 400..599

\* A slip: the body of a 200 response cached whatever use_cache says.
ShouldCacheAlways(status, use_cache) == status = 200

\* Whether get writes the body of the response to the cache.
ShouldCache(status, use_cache) == status = 200 /\ use_cache

\* The fake Response built of cached bytes, and a Response of the session.
CachedResponse(bytes) ==
    [kind |-> "returned", status |-> 200, content |-> bytes, cache_hit |-> TRUE,
     exc |-> "none"]

Returned(status, content) ==
    [kind |-> "returned", status |-> status, content |-> content, cache_hit |-> FALSE,
     exc |-> "none"]

Raised(exc) ==
    [kind |-> "raised", status |-> 0, content |-> <<>>, cache_hit |-> FALSE,
     exc |-> exc]

(***************************************************************************)
(* rl/aggregation.py: _mean and _weighted_mean.                            *)
(***************************************************************************)
\* A slip: an absent value counted as a zero-valued entry.
_mean_absent_as_zero(values) ==
    LET vals == SelectSeq(values, LAMBDA v : v # None)
    IN  IF values = <<>> THEN None ELSE RDivInt(RSum(vals), Len(values))

_mean(values) ==
    LET vals == SelectSeq(values, LAMBDA v : v # None)
    IN  IF vals = <<>> THEN None ELSE RDivInt(RSum(vals), Len(vals))

\* A slip: an absent value counted as zero with its weight.
RECURSIVE WeightedAccNoneAsZero(_, _, _)
WeightedAccNoneAsZero(values, num, den) ==
    IF values = <<>> THEN <<num, den>>
    ELSE LET val == IF Head(values)[1] = None THEN Num(0) ELSE Head(values)[1]
             w == Head(values)[2]
         IN  IF w <= 0
             THEN WeightedAccNoneAsZero(Tail(values), num, den)
             ELSE WeightedAccNoneAsZero(Tail(values), RAdd(num, RMul(val, Num(w))), den + w)

\* The loop of _weighted_mean over values[i..]: the pair (num, den).
RECURSIVE WeightedAcc(_, _, _)
WeightedAcc(values, num, den) ==
    IF values = <<>> THEN <<num, den>>
    ELSE LET val == Head(values)[1]
             w == Head(values)[2]
         IN  IF val = None \/ w <= 0
             THEN WeightedAcc(Tail(values), num, den)
             ELSE WeightedAcc(Tail(values), RAdd(num, RMul(val, Num(w))), den + w)

_weighted_mean(values) ==
    LET acc == WeightedAcc(values, Num(0), 0)
    IN  IF acc[2] = 0 THEN None ELSE RDivInt(acc[1], acc[2])

(***************************************************************************)
(* rl/aggregation.py: ArticleRow, aggregate_per_issue, aggregate_per_year. *)
(* An ArticleRow is a record with the fields the aggregation reads and the *)
(* url; title, author and section are passed through untouched.            *)
(***************************************************************************)
ArticleRow(source, url, published, issue_date, m) ==
    [source |-> source, url |-> url, published |-> published,
     issue_date |-> issue_date, num_words |-> m.num_words,
     num_sentences |-> m.num_sentences,
     gunning_fog |-> m.gunning_fog, dale_chall |-> m.dale_chall,
     flesch_reading_ease |-> m.flesch_reading_ease]

\* A slip: the published date preferred to the issue date.
KeyDatePublishedFirst(r) == IF r.published # NoneStr THEN r.published ELSE r.issue_date

\* key_date = r.issue_date or r.published or None
KeyDate(r) == IF r.issue_date # NoneStr THEN r.issue_date ELSE r.published

\* The keys of the dictionary by_issue after the grouping loop, in
\* insertion order: a row without key_date is skipped.
ByIssueKeys(rws) ==
    DictKeys(Map(SelectSeq(rws, LAMBDA r : KeyDate(r) # NoneStr),
                 LAMBDA r : <<KeyDate(r), r.source>>), <<>>)

\* by_issue[key]: the rows appended under key, in input order.
ByIssueItems(rws, key) ==
    SelectSeq(rws, LAMBDA r : KeyDate(r) # NoneStr /\ <<KeyDate(r), r.source>> = key)

\* csv.DictWriter writes None as the empty cell and a number as its text;
\* the text of a number is the one-token sequence holding it.
CsvCell(v) == IF v = None THEN <<>> ELSE <<v>>

\* float(cell) if cell else None
ReadCell(cell) == IF cell # <<>> THEN cell[1] ELSE None

\* The dictionary aggregate_per_issue appends for one group, as written.
IssueRow(key, items) ==
    [issue_date |-> key[1],
     source |-> key[2],
     num_articles |-> CsvCell(Num(Len(items))),
     total_words |-> CsvCell(Num(IntSum(Map(items, LAMBDA r : r.num_words)))),
     gunning_fog_mean |-> CsvCell(_mean(Map(items, LAMBDA r : r.gunning_fog))),
     dale_chall_mean |-> CsvCell(_mean(Map(items, LAMBDA r : r.dale_chall))),
     flesch_reading_ease_mean |->
         CsvCell(_mean(Map(items, LAMBDA r : r.flesch_reading_ease))),
     gunning_fog_weighted_mean |->
         CsvCell(_weighted_mean(Map(items, LAMBDA r : <<r.gunning_fog, r.num_words>>))),
     dale_chall_weighted_mean |->
         CsvCell(_weighted_mean(Map(items, LAMBDA r : <<r.dale_chall, r.num_words>>))),
     flesch_reading_ease_weighted_mean |->
         CsvCell(_weighted_mean(Map(items,
                     LAMBDA r : <<r.flesch_reading_ease, r.num_words>>)))]

\* A slip: the groups written in dictionary order, without sorted().
IssueOrderInserted(keys) == keys

\* sorted(by_issue.items()): the order in which the groups are written.
IssueOrder(keys) == SortedIssueKeys(Range(keys))

\* The rows of per_issue.csv that aggregate_per_issue writes for rws.
aggregate_per_issue(rws) ==
    LET keys == IssueOrder(ByIssueKeys(rws))
    IN  [i \in 1..Len(keys) |-> IssueRow(keys[i], ByIssueItems(rws, keys[i]))]

\* The key (year, source) under which aggregate_per_year files a csv row.
YearKey(row) == <<strptime_year(row.issue_date), row.source>>

\* A slip: the weighted columns of the csv row read instead of the plain means.
YearItemWeightedColumns(row) ==
    [gunning_fog |-> ReadCell(row.gunning_fog_weighted_mean),
     dale_chall |-> ReadCell(row.dale_chall_weighted_mean),
     flesch |-> ReadCell(row.flesch_reading_ease_weighted_mean)]

\* The entry aggregate_per_year appends to by_year for a csv row.
YearItem(row) ==
    [gunning_fog |-> ReadCell(row.gunning_fog_mean),
     dale_chall |-> ReadCell(row.dale_chall_mean),
     flesch |-> ReadCell(row.flesch_reading_ease_mean)]

YearRow(key, items) ==
    [year |-> key[1],
     source |-> key[2],
     gunning_fog_mean |-> CsvCell(_mean(Map(items, LAMBDA x : x.gunning_fog))),
     dale_chall_mean |-> CsvCell(_mean(Map(items, LAMBDA x : x.dale_chall))),
     flesch_reading_ease_mean |-> CsvCell(_mean(Map(items, LAMBDA x : x.flesch)))]

\* The keys of the dictionary by_year after the reading loop, in insertion order.
ByYearKeys(csv) == DictKeys(Map(csv, YearKey), <<>>)

\* sorted(by_year.items()): the order in which the groups are written.
YearOrder(keys) == SortedYearKeys(Range(keys))

\* The rows of per_year.csv that aggregate_per_year writes for a per_issue.csv.
aggregate_per_year(csv) ==
    LET keys == YearOrder(ByYearKeys(csv))
        items(key) == Map(SelectSeq(csv, LAMBDA row : YearKey(row) = key), YearItem)
    IN  [i \in 1..Len(keys) |-> YearRow(keys[i], items(keys[i]))]

(***************************************************************************)
(* Inputs of the aggregation.  The metrics of a row are those of one call  *)
(* of readability_metrics: all three scores absent, or all three present.  *)
(***************************************************************************)
NoScores == Metrics(0, 0, None, None, None)
ShortEasy == Metrics(10, 2, Num(5), Num(6), Num(70))
LongHard == Metrics(90, 3, Num(15), Num(8), Num(0))
Dense == Metrics(50, 1, Num(20), Num(9), Num(-10))

RowMetrics == {NoScores, ShortEasy, LongHard}

\* The datetimes of the issues and publications, and their iso_date strings.
DateTimes ==
    { [y |-> 2023, m |-> 12, d |-> 25], [y |-> 2024, m |-> 1, d |-> 1],
      [y |-> 2024, m |-> 1, d |-> 8] }

Dec25 == iso_date([y |-> 2023, m |-> 12, d |-> 25])
Jan01 == iso_date([y |-> 2024, m |-> 1, d |-> 1])
Jan08 == iso_date([y |-> 2024, m |-> 1, d |-> 8])

IssueDates == {NoneStr, Jan01}
PublishedDates == {NoneStr, Dec25}

\* The lists of n article rows; the url of a row is its position.
RECURSIVE RowLists(_)
RowLists(n) ==
    IF n = 0 THEN {<<>>}
    ELSE { Append(l, ArticleRow(s, n, p, d, m)) :
             l \in RowLists(n - 1), s \in {magazine, web},
             p \in PublishedDates, d \in IssueDates, m \in RowMetrics }

\* The groups of articles behind the rows of a per_issue.csv.
IssueGroups ==
    { <<NoScores>>, <<ShortEasy>>, <<Dense>>, <<ShortEasy, LongHard>> }

GroupRows(g) == [i \in 1..Len(g) |-> ArticleRow(magazine, i, NoneStr, Jan01, g[i])]

\* The per_issue.csv files with the keys K: what aggregate_per_issue writes
\* when the articles of key k are the group groups[k].
IssueCsvs(K) ==
    { LET keys == SortedIssueKeys(K)
      IN  [i \in 1..Len(keys) |-> IssueRow(keys[i], GroupRows(groups[keys[i]]))] :
        groups \in [K -> IssueGroups] }

AllIssueKeys == {Dec25, Jan01, Jan08} \X {magazine, web}

(***************************************************************************)
(* The entries handed to _weighted_mean: (Optional[float], int) pairs; the *)
(* weight is a word count, never negative.                                 *)
(***************************************************************************)
EntryValues == {None, Num(5), Num(15)}
EntryWeights == {0, 10, 90}
Entries == (EntryValues \X EntryWeights) \cup { <<Num(10), 100>>, <<Num(20), 0>> }

RECURSIVE EntryLists(_)
EntryLists(n) ==
    IF n = 0 THEN {<<>>}
    ELSE { Append(l, e) : l \in EntryLists(n - 1), e \in Entries }

(***************************************************************************)
(* Actions of the aggregation.                                             *)
(***************************************************************************)
\* cmd_aggregate: aggregate_per_issue(cfg, rows) writes per_issue.csv.
AggregatePerIssue ==
    /\ pc = "rows"
    /\ per_issue_csv' = aggregate_per_issue(rows)
    /\ pc' = "per_issue"
    /\ UNCHANGED <<rows, per_year_csv, wm_values, wm_result, metricsVars, extractVars, scanVars, otherVars>>

\* cmd_aggregate: aggregate_per_year(cfg, per_issue) reads it, writes per_year.csv.
AggregatePerYear ==
    /\ pc = "per_issue"
    /\ per_year_csv' = aggregate_per_year(per_issue_csv)
    /\ pc' = "per_year"
    /\ UNCHANGED <<rows, per_issue_csv, wm_values, wm_result, metricsVars, extractVars, scanVars, otherVars>>

\* One call of _weighted_mean.
WeightedMean ==
    /\ pc = "call"
    /\ wm_result' = _weighted_mean(wm_values)
    /\ pc' = "returned"
    /\ UNCHANGED <<rows, per_issue_csv, per_year_csv, wm_values, metricsVars, extractVars, scanVars, otherVars>>

\* No call of readability_metrics is under way.
NoMetricsCall ==
    /\ textstat = FALSE /\ text = <<>> /\ metrics = NoScores /\ path = "none"

\* Nothing was saved yet.
NoStore == ex_store = <<>> /\ saved = <<>>

\* The cache directory as SimpleCache.__init__ leaves a fresh one, unused.
NoCache == cache = [dirs |-> {}, files |-> <<>>] /\ cache_log = <<>>

\* No word is being counted.
NoWord == word = <<>> /\ counted = [syllables |-> 0, complex |-> 0]

\* No page is being read for its metadata.
NoPage ==
    /\ page = [title_string |-> Absent, og_title |-> Absent, authors |-> <<>>,
               published_time |-> Absent, section |-> Absent, nodes |-> <<>>]
    /\ page_meta = [title |-> Absent, author |-> Absent, date |-> Absent,
                    section |-> Absent]

\* No issue page is being listed.
NoList == issue_url = <<>> /\ issue_links = <<>> /\ listed = <<>>

\* No page: what html, text and meta hold before the first article.
NoHtml == [text |-> <<>>, title |-> <<>>, published |-> [y |-> 0, m |-> 0, d |-> 0],
           rendered |-> FALSE]

\* No fetch is running.
NoFetch ==
    /\ fetch_job = [source |-> <<>>, issue_date |-> [y |-> 0, m |-> 0, d |-> 0],
                    urls |-> <<>>]
    /\ fetch_i = 0
    /\ fetch_cur = NoHtml
    /\ raw_store = <<>>
    /\ fetch_log = <<>>

\* get has neither returned nor raised.
NoResult == [kind |-> "none", status |-> 0, content |-> <<>>, cache_hit |-> FALSE,
             exc |-> "none"]

\* HttpClient.get is not running.
NoHttp ==
    /\ http_req = [url |-> "", use_cache |-> FALSE, max_retries |-> 0]
    /\ cache_at_call = [dirs |-> {}, files |-> <<>>]
    /\ http_attempt = 0
    /\ http_log = <<>>
    /\ http_last_exc = "none"
    /\ http_result = NoResult

NoRest == NoList /\ NoFetch /\ NoHttp

\* Nothing else has run.
NoOther == NoStore /\ NoCache /\ NoWord /\ NoPage /\ NoRest

\* No aggregation, metrics call, extraction or scan is under way.
NoAnalysis ==
    /\ rows = <<>> /\ per_issue_csv = <<>> /\ per_year_csv = <<>>
    /\ wm_values = <<>> /\ wm_result = None
    /\ textstat = FALSE /\ text = <<>>
    /\ metrics = [num_words |-> 0, num_sentences |-> 0, gunning_fog |-> None,
                  dale_chall |-> None, flesch_reading_ease |-> None]
    /\ path = "none"
    /\ soup = <<>> /\ extracted = <<>>
    /\ extracted_dir = <<[present |-> FALSE, files |-> <<>>],
                         [present |-> FALSE, files |-> <<>>]>>
    /\ scan = [source |-> 1, file |-> 1, raised |-> FALSE]

\* No page is being extracted.
NoExtraction == soup = <<>> /\ extracted = <<>>

\* No scan of the extracted directory is under way.
NoScan ==
    /\ extracted_dir = <<[present |-> FALSE, files |-> <<>>],
                         [present |-> FALSE, files |-> <<>>]>>
    /\ scan = [source |-> 1, file |-> 1, raised |-> FALSE]

Idle == /\ per_issue_csv = <<>> /\ per_year_csv = <<>>
        /\ wm_values = <<>> /\ wm_result = None
        /\ NoMetricsCall /\ NoExtraction /\ NoScan /\ NoOther

\* cmd_aggregate over any list of at most MaxRows article rows.
InitAggregate ==
    /\ pc = "rows"
    /\ rows \in UNION { RowLists(n) : n \in 0..MaxRows }
    /\ Idle

NextAggregate == AggregatePerIssue \/ AggregatePerYear

SpecAggregate == InitAggregate /\ [][NextAggregate]_vars

\* aggregate_per_year over any per_issue.csv of at most MaxIssues rows.
InitYear ==
    /\ pc = "per_issue"
    /\ rows = <<>>
    /\ per_issue_csv \in
         UNION { IssueCsvs(K) : K \in { S \in SUBSET AllIssueKeys : Cardinality(S) <= MaxIssues } }
    /\ per_year_csv = <<>>
    /\ wm_values = <<>> /\ wm_result = None
    /\ NoMetricsCall /\ NoExtraction /\ NoScan /\ NoOther

SpecYear == InitYear /\ [][AggregatePerYear]_vars

\* _weighted_mean over any list of at most MaxEntries entries.
InitWeightedMean ==
    /\ pc = "call"
    /\ wm_values \in UNION { EntryLists(n) : n \in 0..MaxEntries }
    /\ wm_result = None
    /\ rows = <<>> /\ per_issue_csv = <<>> /\ per_year_csv = <<>>
    /\ NoMetricsCall /\ NoExtraction /\ NoScan /\ NoOther

SpecWeightedMean == InitWeightedMean /\ [][WeightedMean]_vars

(***************************************************************************)
(* readability_metrics(text): one action for each return statement.        *)
(***************************************************************************)
TextChars == {" ", "a", "t", "'", ".", "1"}

RECURSIVE Texts(_)
Texts(n) ==
    IF n = 0 THEN {<<>>}
    ELSE { Append(t, c) : t \in Texts(n - 1), c \in TextChars }

\* `if not text`: the text strips to nothing.
MetricsEmpty ==
    /\ pc = "metrics_call"
    /\ Stripped(text) = <<>>
    /\ metrics' = EmptyTextResult
    /\ path' = "empty"
    /\ pc' = "metrics_returned"
    /\ UNCHANGED <<aggVars, textstat, text, extractVars, scanVars, otherVars>>

\* textstat is there and answers.
MetricsTextstat ==
    /\ pc = "metrics_call"
    /\ Stripped(text) # <<>>
    /\ textstat
    /\ \E r \in TextstatResults : metrics' = r
    /\ path' = "textstat"
    /\ pc' = "metrics_returned"
    /\ UNCHANGED <<aggVars, textstat, text, extractVars, scanVars, otherVars>>

\* textstat is not there, or it raised: the from-scratch computation.
MetricsNative ==
    /\ pc = "metrics_call"
    /\ Stripped(text) # <<>>
    /\ metrics' = NativeMetrics(Stripped(text))
    /\ path' = "native"
    /\ pc' = "metrics_returned"
    /\ UNCHANGED <<aggVars, textstat, text, extractVars, scanVars, otherVars>>

InitMetrics ==
    /\ pc = "metrics_call"
    /\ textstat \in BOOLEAN
    /\ text \in UNION { Texts(n) : n \in 0..MaxTextLen }
    /\ metrics = NoScores
    /\ path = "none"
    /\ rows = <<>> /\ per_issue_csv = <<>> /\ per_year_csv = <<>>
    /\ wm_values = <<>> /\ wm_result = None
    /\ NoExtraction /\ NoScan /\ NoOther

NextMetrics == MetricsEmpty \/ MetricsTextstat \/ MetricsNative

SpecMetrics == InitMetrics /\ [][NextMetrics]_vars

(***************************************************************************)
(* readability_metrics over texts made of whole words: long words of four   *)
(* letters, then short words of one, a blank between two words and a full   *)
(* stop after each of the first stops words.                                *)
(***************************************************************************)
RECURSIVE WordText(_, _, _)
WordText(long, short, stops) ==
    IF long + short = 0 THEN <<>>
    ELSE LET w == IF long > 0 THEN <<"t", "t", "t", "t">> ELSE <<"a">>
             stop == IF stops > 0 THEN <<".">> ELSE <<>>
             rest == IF long > 0 THEN WordText(long - 1, short, Max(0, stops - 1))
                     ELSE WordText(0, short - 1, Max(0, stops - 1))
         IN  w \o stop \o (IF rest = <<>> THEN <<>> ELSE <<" ">> \o rest)

InitMetricsWords ==
    /\ pc = "metrics_call"
    /\ textstat \in BOOLEAN
    /\ text \in { WordText(l, sh, st) :
                    l \in 0..MaxLongWords, sh \in 0..MaxShortWords, st \in 0..1 }
    /\ metrics = NoScores
    /\ path = "none"
    /\ rows = <<>> /\ per_issue_csv = <<>> /\ per_year_csv = <<>>
    /\ wm_values = <<>> /\ wm_result = None
    /\ NoExtraction /\ NoScan /\ NoOther

SpecMetricsWords == InitMetricsWords /\ [][NextMetrics]_vars

(***************************************************************************)
(* extract_article_text over any parsed page of at most MaxNodes elements. *)
(***************************************************************************)
\* A too short paragraph, and two paragraphs that qualify.
ShortPara == << <<" ", "a", " ">> >>
ParaAB == << <<"a", "b">> >>
ParaCD == << <<"c">>, <<" ", "d">> >>

\* The elements a page is made of, but for their depth.
Containers == { Selector("article", ""), Selector("div", "body__inner-container") }
Paragraphs == { ShortPara, ParaAB, ParaCD }

\* The deepest an element may lie that follows the elements of nodes.
DeepestNext(nodes) ==
    IF nodes = <<>> THEN 0
    ELSE LET last == nodes[Len(nodes)]
         IN  IF last.tag = "p" THEN last.depth ELSE last.depth + 1

\* The elements that may stand at position n of a page.
NodeElements(n) ==
    { Element(c.tag, c.cls, dp, <<>>) : c \in Containers, dp \in 0..(n - 1) }
    \cup
    { Element("p", "", dp, strings) : strings \in Paragraphs, dp \in 0..(n - 1) }

RECURSIVE NodeLists(_)
NodeLists(n) ==
    IF n = 0 THEN {<<>>}
    ELSE { Append(q[1], q[2]) :
             q \in { r \in NodeLists(n - 1) \X NodeElements(n) :
                       r[2].depth <= DeepestNext(r[1]) } }

\* The page of these elements once the parser has put them in a <body>.
WithBody(l) ==
    <<Element("body", "", 0, <<>>)>>
        \o [i \in 1..Len(l) |-> [l[i] EXCEPT !.depth = @ + 1]]

ExtractArticleText ==
    /\ pc = "extract_call"
    /\ extracted' = extract_article_text(soup)
    /\ pc' = "extract_returned"
    /\ UNCHANGED <<aggVars, metricsVars, soup, scanVars, otherVars>>

InitExtract ==
    /\ pc = "extract_call"
    /\ \E n \in 0..MaxNodes : \E l \in NodeLists(n) :
          soup \in {l, WithBody(l)}
    /\ extracted = <<>>
    /\ rows = <<>> /\ per_issue_csv = <<>> /\ per_year_csv = <<>>
    /\ wm_values = <<>> /\ wm_result = None
    /\ NoMetricsCall /\ NoScan /\ NoOther

SpecExtract == InitExtract /\ [][ExtractArticleText]_vars

(***************************************************************************)
(* rl/aggregation.py: compute_per_article over _iter_extracted_json.  The   *)
(* directory of a source is the list of the files os.walk meets, in the     *)
(* order it meets them.  A file written by the scraper holds a JSON object; *)
(* a write cut short leaves text that is no JSON; a file may be unreadable; *)
(* and a file may bear another name than *.json.                            *)
(***************************************************************************)
ScanSources == <<magazine, web>>

File(dot_json, content, data) ==
    [dot_json |-> dot_json, content |-> content, data |-> data]

Data(url, text_, published, issue_date) ==
    [url |-> url, text |-> text_, published |-> published, issue_date |-> issue_date]

\* What readability_metrics may return for the text.
readability_metrics(t, with_textstat) ==
    IF Stripped(t) = <<>> THEN {EmptyTextResult}
    ELSE (IF with_textstat THEN TextstatResults ELSE {})
             \cup {NativeMetrics(Stripped(t))}

\* A slip: no try around the load, the error leaves the scan.
RaiseOnLoadError(pos) == [pos EXCEPT !.raised = TRUE]

\* except Exception: continue
OnLoadError(pos) == [pos EXCEPT !.file = @ + 1]

\* One turn of the loop over files, compute_per_article's body included.
ScanFile ==
    /\ pc = "scan"
    /\ ~scan.raised
    /\ scan.source <= Len(ScanSources)
    /\ extracted_dir[scan.source].present
    /\ scan.file <= Len(extracted_dir[scan.source].files)
    /\ LET f == extracted_dir[scan.source].files[scan.file]
       IN  IF ~f.dot_json
           THEN /\ scan' = [scan EXCEPT !.file = @ + 1]
                /\ rows' = rows
           ELSE IF f.content # "object"
           THEN /\ scan' = OnLoadError(scan)
                /\ rows' = rows
           ELSE /\ \E m \in readability_metrics(f.data.text, textstat) :
                     rows' = Append(rows,
                                ArticleRow(ScanSources[scan.source], f.data.url,
                                           f.data.published, f.data.issue_date, m))
                /\ scan' = [scan EXCEPT !.file = @ + 1]
    /\ UNCHANGED <<pc, per_issue_csv, per_year_csv, wm_values, wm_result,
                   metricsVars, extractVars, extracted_dir, otherVars>>

\* The directory of the source is missing, or its walk is over.
ScanNextSource ==
    /\ pc = "scan"
    /\ ~scan.raised
    /\ scan.source <= Len(ScanSources)
    /\ \/ ~extracted_dir[scan.source].present
       \/ scan.file > Len(extracted_dir[scan.source].files)
    /\ scan' = [scan EXCEPT !.source = @ + 1, !.file = 1]
    /\ UNCHANGED <<pc, aggVars, metricsVars, extractVars, extracted_dir, otherVars>>

\* return rows
ScanReturn ==
    /\ pc = "scan"
    /\ ~scan.raised
    /\ scan.source > Len(ScanSources)
    /\ pc' = "scan_returned"
    /\ UNCHANGED <<aggVars, metricsVars, extractVars, scanVars, otherVars>>

\* The files of a store.
ArtifactA == File(TRUE, "object", Data(1, <<"a", " ", "t", ".">>, NoneStr, Jan01))
ArtifactB == File(TRUE, "object", Data(2, <<>>, Dec25, NoneStr))
NoData == Data(0, <<>>, NoneStr, NoneStr)
CutShort == File(TRUE, "not_json", NoData)
Unreadable == File(TRUE, "unreadable", NoData)
OtherName == File(FALSE, "other", NoData)
Files == {ArtifactA, ArtifactB, CutShort, Unreadable, OtherName}

RECURSIVE FileLists(_)
FileLists(n) ==
    IF n = 0 THEN {<<>>}
    ELSE { Append(l, f) : l \in FileLists(n - 1), f \in Files }

\* The directories of a source that hold n files.
Dirs(n) ==
    { [present |-> TRUE, files |-> l] : l \in FileLists(n) }
        \cup (IF n = 0 THEN {[present |-> FALSE, files |-> <<>>]} ELSE {})

InitScan ==
    /\ pc = "scan"
    /\ \E n \in 0..MaxFiles : \E k \in 0..n :
          extracted_dir \in { <<m, w>> : m \in Dirs(k), w \in Dirs(n - k) }
    /\ scan = [source |-> 1, file |-> 1, raised |-> FALSE]
    /\ textstat \in BOOLEAN
    /\ text = <<>> /\ metrics = NoScores /\ path = "none"
    /\ rows = <<>> /\ per_issue_csv = <<>> /\ per_year_csv = <<>>
    /\ wm_values = <<>> /\ wm_result = None
    /\ NoExtraction /\ NoOther

NextScan == ScanFile \/ ScanNextSource \/ ScanReturn

SpecScan == InitScan /\ [][NextScan]_vars

(***************************************************************************)
(* Articles saved one after the other, as fetch_magazine_issue and          *)
(* fetch_web_for_issue_week build them: the issue date always there, the    *)
(* publication date there for some web articles only.                       *)
(***************************************************************************)
UrlAUnderscoreB == <<"n", "y", "/", "a", "_", "b">>
UrlADashB == <<"n", "y", "/", "a", "-", "b">>
Urls == {UrlAUnderscoreB, UrlADashB}
TheMail == <<"T", "h", "e", " ", "M", "a", "i", "l">>
Titles == {<<>>, TheMail}
Dec28 == [y |-> 2023, m |-> 12, d |-> 28]

Articles ==
    { Article(u, t, NoDate, i, magazine, <<"w">>) :
        u \in Urls, t \in Titles, i \in DateTimes }
    \cup
    { Article(u, t, p, i, web, <<"w">>) :
        u \in Urls, t \in Titles, p \in {NoDate, Dec28}, i \in DateTimes }

SaveRawAndExtracted ==
    /\ pc = "store"
    /\ Len(saved) < MaxSaves
    /\ \E article \in Articles :
          /\ ex_store' = WriteFile(ex_store, ExPath(article), Meta(article))
          /\ saved' = Append(saved, article)
    /\ UNCHANGED <<pc, aggVars, metricsVars, extractVars, scanVars, cacheVars, wordVars, pageVars, restVars>>

InitStore ==
    /\ pc = "store"
    /\ NoStore
    /\ NoAnalysis /\ NoCache /\ NoWord /\ NoPage /\ NoRest

SpecStore == InitStore /\ [][SaveRawAndExtracted]_vars

(***************************************************************************)
(* Calls of SimpleCache.get and .set one after the other.                   *)
(***************************************************************************)
CacheKeys == {"o", "v", "a"}
CacheValues == {<<>>, <<1>>, <<2>>}

CacheSet ==
    /\ pc = "cache"
    /\ Len(cache_log) < MaxCacheOps
    /\ \E k \in CacheKeys, v \in CacheValues :
          /\ cache' = cache_set(cache, k, v)
          /\ cache_log' = Append(cache_log, [op |-> "set", key |-> k, value |-> SomeBytes(v)])
    /\ UNCHANGED <<pc, aggVars, metricsVars, extractVars, scanVars, storeVars, wordVars, pageVars, restVars>>

CacheGet ==
    /\ pc = "cache"
    /\ Len(cache_log) < MaxCacheOps
    /\ \E k \in CacheKeys :
          /\ cache' = MakeSubdir(cache, k)
          /\ cache_log' = Append(cache_log,
                                 [op |-> "get", key |-> k, value |-> cache_get(cache, k)])
    /\ UNCHANGED <<pc, aggVars, metricsVars, extractVars, scanVars, storeVars, wordVars, pageVars, restVars>>

InitCache ==
    /\ pc = "cache"
    /\ NoCache
    /\ NoAnalysis /\ NoStore /\ NoWord /\ NoPage /\ NoRest

NextCache == CacheSet \/ CacheGet

SpecCache == InitCache /\ [][NextCache]_vars

(***************************************************************************)
(* The syllable counters over any word of at most MaxWordLen characters.    *)
(***************************************************************************)
WordLetters == {"a", "e", "E", "l", "'"}

RECURSIVE Words(_)
Words(n) ==
    IF n = 0 THEN {<<>>}
    ELSE { Append(w, ch) : w \in Words(n - 1), ch \in WordLetters }

CountSyllables ==
    /\ pc = "word_call"
    /\ counted' = [syllables |-> _count_syllables_in_word(word),
                   complex |-> _count_complex_words(<<word>>)]
    /\ pc' = "word_returned"
    /\ UNCHANGED <<aggVars, metricsVars, extractVars, scanVars, storeVars, cacheVars, word, pageVars, restVars>>

InitWord ==
    /\ pc = "word_call"
    /\ word \in UNION { Words(n) : n \in 1..MaxWordLen }
    /\ counted = [syllables |-> 0, complex |-> 0]
    /\ NoAnalysis /\ NoStore /\ NoCache /\ NoPage /\ NoRest

SpecWord == InitWord /\ [][CountSyllables]_vars

(***************************************************************************)
(* extract_meta over pages with or without a breadcrumb navigation of list  *)
(* items and links.                                                         *)
(***************************************************************************)
Home == <<"H", "o", "m", "e">>
Culture == <<"C", "u", "l", "t", "u", "r", "e">>
Books == <<"B", "o", "o", "k", "s">>

\* The deepest an element may lie that follows the elements of nodes.
CrumbDeepestNext(nodes) ==
    LET last == nodes[Len(nodes)]
    IN  IF last.tag = "a" THEN last.depth ELSE last.depth + 1

\* A <nav class="breadcrumbs"> and the n elements after its opening tag.
\* The elements that may stand at position n after the <nav>.
CrumbElements(n) ==
    { Element("li", "", dp, <<>>) : dp \in 0..n }
    \cup
    { Element("a", "", dp, <<str>>) : str \in {Home, Culture}, dp \in 0..n }

RECURSIVE CrumbLists(_)
CrumbLists(n) ==
    IF n = 0 THEN { <<Element("nav", "breadcrumbs", 0, <<>>)>> }
    ELSE { Append(q[1], q[2]) :
             q \in { r \in CrumbLists(n - 1) \X CrumbElements(n) :
                       r[2].depth <= CrumbDeepestNext(r[1]) } }

\* The pages whose breadcrumb navigation is followed by up to n elements.
Pages(n) ==
    { [title_string |-> t, og_title |-> og, authors |-> <<am, ab, Absent, Absent>>,
       published_time |-> Absent, section |-> sec, nodes |-> l] :
        t \in {Absent, Some(<<" ", "T", " ">>)},
        og \in {Absent, Some(<<"O">>)},
        am \in {Absent, Some(<<>>), Some(<<"M">>)},
        ab \in {Absent, Some(<<"B">>)},
        sec \in {Absent, Some(<<>>), Some(Books)},
        l \in {<<>>} \cup UNION { CrumbLists(k) : k \in 0..n } }

ExtractMeta ==
    /\ pc = "meta_call"
    /\ page_meta' = extract_meta(page)
    /\ pc' = "meta_returned"
    /\ UNCHANGED <<aggVars, metricsVars, extractVars, scanVars, storeVars, cacheVars,
                   wordVars, page, restVars>>

InitMeta ==
    /\ pc = "meta_call"
    /\ page \in Pages(MaxCrumbs)
    /\ page_meta = [title |-> Absent, author |-> Absent, date |-> Absent,
                    section |-> Absent]
    /\ NoAnalysis /\ NoStore /\ NoCache /\ NoWord /\ NoRest

SpecMeta == InitMeta /\ [][ExtractMeta]_vars

(***************************************************************************)
(* get_issue_articles over issue pages of up to MaxLinks links.             *)
(***************************************************************************)
\* /magazine/2024/01/01/a-b and /magazine/2024/01/01/a_b/
OwnArticle ==
    <<47, 109, 97, 103, 97, 122, 105, 110, 101, 47, 50, 48, 50, 52, 47, 48,
      49, 47, 48, 49, 47, 97, 45, 98>>
OwnArticleSlash ==
    <<47, 109, 97, 103, 97, 122, 105, 110, 101, 47, 50, 48, 50, 52, 47, 48,
      49, 47, 48, 49, 47, 97, 95, 98, 47>>
\* /magazine/2023/12/25/a-b, an article of another issue
OtherIssueArticle ==
    <<47, 109, 97, 103, 97, 122, 105, 110, 101, 47, 50, 48, 50, 51, 47, 49,
      50, 47, 50, 53, 47, 97, 45, 98>>
\* /magazine/2024/01/01, /magazine/2024/01/01/a-b/c and /magazine/2024/01/01/a.b
IssuePage ==
    <<47, 109, 97, 103, 97, 122, 105, 110, 101, 47, 50, 48, 50, 52, 47, 48,
      49, 47, 48, 49>>
DeeperPage ==
    <<47, 109, 97, 103, 97, 122, 105, 110, 101, 47, 50, 48, 50, 52, 47, 48,
      49, 47, 48, 49, 47, 97, 45, 98, 47, 99>>
DottedPage ==
    <<47, 109, 97, 103, 97, 122, 105, 110, 101, 47, 50, 48, 50, 52, 47, 48,
      49, 47, 48, 49, 47, 97, 46, 98>>
\* /news/a-b and https://www.newyorker.com/magazine/2024/01/01/a-b
NewsPage ==
    <<47, 110, 101, 119, 115, 47, 97, 45, 98>>
AbsoluteArticle ==
    <<104, 116, 116, 112, 115, 58, 47, 47, 119, 119, 119, 46, 110, 101,
      119, 121, 111, 114, 107, 101, 114, 46, 99, 111, 109, 47, 109, 97,
      103, 97, 122, 105, 110, 101, 47, 50, 48, 50, 52, 47, 48, 49, 47, 48,
      49, 47, 97, 45, 98>>

Hrefs == {OwnArticle, OwnArticleSlash, OtherIssueArticle, IssuePage, DeeperPage,
          DottedPage, NewsPage, AbsoluteArticle}

\* The URL of the issue of 2024-01-01, as get_issues_for_year builds it.
IssueUrl == _abs(base_url, IssuePage)

LinkLists == UNION { [1..n -> Hrefs] : n \in 0..MaxLinks }

GetIssueArticles ==
    /\ pc = "list_call"
    /\ listed' = get_issue_articles(issue_links)
    /\ pc' = "list_returned"
    /\ UNCHANGED <<aggVars, metricsVars, extractVars, scanVars, storeVars, cacheVars,
                   wordVars, pageVars, issue_url, issue_links, fetchVars, httpVars>>

\* http.get(issue_url) raises, and so does get_issue_articles.
GetIssueArticlesRaises ==
    /\ pc = "list_call"
    /\ pc' = "list_raised"
    /\ UNCHANGED <<aggVars, metricsVars, extractVars, scanVars, storeVars, cacheVars,
                   wordVars, pageVars, listVars, fetchVars, httpVars>>

InitList ==
    /\ pc = "list_call"
    /\ issue_url = IssueUrl
    /\ issue_links \in LinkLists
    /\ listed = <<>>
    /\ NoAnalysis /\ NoStore /\ NoCache /\ NoWord /\ NoPage /\ NoFetch /\ NoHttp

NextList == GetIssueArticles \/ GetIssueArticlesRaises

SpecList == InitList /\ [][NextList]_vars

(***************************************************************************)
(* One fetch of a magazine issue or of the web articles of its week, over   *)
(* up to MaxArticles URLs, with pages of 0, 49 and 50 words.                *)
(***************************************************************************)
\* n words joined by single blanks
RECURSIVE WordsText(_)
WordsText(n) ==
    IF n = 0 THEN <<>>
    ELSE IF n = 1 THEN <<"w">>
    ELSE WordsText(n - 1) \o <<" ", "w">>

PlainPages(source) ==
    { [text |-> WordsText(n), title |-> t, published |-> p, rendered |-> FALSE] :
        n \in {0, MinWords - 1, MinWords}, t \in Titles,
        p \in IF source = web THEN {NoDate, Dec28} ELSE {NoDate} }

RenderedPages ==
    { [text |-> WordsText(n), title |-> TheMail, published |-> NoDate,
       rendered |-> TRUE] : n \in {MinWords - 1, MinWords} }

\* The URLs of a fetch: pairwise different.
UrlLists ==
    { l \in UNION { [1..n -> Urls] : n \in 1..MaxArticles } :
        \A i, j \in 1..Len(l) : l[i] = l[j] => i = j }

\* sorted(urls): "ny/a-b" comes before "ny/a_b".
SortedUrlLists == { l \in UrlLists : Len(l) >= 2 => l[1] = UrlADashB }

FetchJobs ==
    { [source |-> magazine, issue_date |-> i, urls |-> l] :
        i \in {Dec28}, l \in SortedUrlLists }
    \cup
    { [source |-> web, issue_date |-> i, urls |-> l] : i \in {Dec28}, l \in UrlLists }

\* rr = http.get(url) returns, and the text is extracted from its html.
FetchGet ==
    /\ pc = "fetch_loop"
    /\ fetch_i <= Len(fetch_job.urls)
    /\ \E html \in PlainPages(fetch_job.source) :
          /\ fetch_cur' = html
          /\ fetch_log' = Append(fetch_log,
                                 [op |-> "get", i |-> fetch_i,
                                  words |-> split_count(html.text)])
          /\ pc' = IF NeedsRendered(html.text) THEN "fetch_render" ELSE "fetch_save"
    /\ UNCHANGED <<aggVars, metricsVars, extractVars, scanVars, storeVars, cacheVars,
                   wordVars, pageVars, listVars, httpVars, fetch_job, fetch_i, raw_store>>

\* http.get(url) raises: nothing catches it and the fetch ends.
FetchGetRaises ==
    /\ pc = "fetch_loop"
    /\ fetch_i <= Len(fetch_job.urls)
    /\ fetch_log' = Append(fetch_log, [op |-> "get_raised", i |-> fetch_i, words |-> 0])
    /\ pc' = "fetch_raised"
    /\ UNCHANGED <<aggVars, metricsVars, extractVars, scanVars, storeVars, cacheVars,
                   wordVars, pageVars, listVars, httpVars, fetch_job, fetch_i, fetch_cur, raw_store>>

\* http.get_rendered(url) returns, and the text is extracted again.
FetchRendered ==
    /\ pc = "fetch_render"
    /\ \E html \in RenderedPages :
          /\ fetch_cur' = html
          /\ fetch_log' = Append(fetch_log,
                                 [op |-> "rendered", i |-> fetch_i,
                                  words |-> split_count(html.text)])
    /\ pc' = "fetch_save"
    /\ UNCHANGED <<aggVars, metricsVars, extractVars, scanVars, storeVars, cacheVars,
                   wordVars, pageVars, listVars, httpVars, fetch_job, fetch_i, raw_store>>

\* http.get_rendered(url) raises: except Exception: pass.
FetchRenderedRaises ==
    /\ pc = "fetch_render"
    /\ fetch_log' = Append(fetch_log,
                           [op |-> "rendered_raised", i |-> fetch_i, words |-> 0])
    /\ pc' = "fetch_save"
    /\ UNCHANGED <<aggVars, metricsVars, extractVars, scanVars, storeVars, cacheVars,
                   wordVars, pageVars, listVars, httpVars, fetch_job, fetch_i, fetch_cur, raw_store>>

\* The raw html is written, the Article built and saved, and appended to
\* results (saved holds them).
FetchSave ==
    /\ pc = "fetch_save"
    /\ LET url == fetch_job.urls[fetch_i]
           art == FetchedArticle(fetch_job, fetch_cur, url)
       IN  /\ raw_store' = WriteFile(raw_store, RawPath(fetch_job, fetch_cur, url),
                                     fetch_cur)
           /\ ex_store' = WriteFile(ex_store, ExPath(art), Meta(art))
           /\ saved' = Append(saved, art)
    /\ fetch_log' = Append(fetch_log, [op |-> "save", i |-> fetch_i, words |-> 0])
    /\ fetch_i' = fetch_i + 1
    /\ pc' = "fetch_loop"
    /\ UNCHANGED <<aggVars, metricsVars, extractVars, scanVars, cacheVars,
                   wordVars, pageVars, listVars, httpVars, fetch_job, fetch_cur>>

\* The loop is over: return results.
FetchReturn ==
    /\ pc = "fetch_loop"
    /\ fetch_i > Len(fetch_job.urls)
    /\ pc' = "fetch_returned"
    /\ UNCHANGED <<aggVars, metricsVars, extractVars, scanVars, storeVars, cacheVars,
                   wordVars, pageVars, listVars, fetchVars, httpVars>>

InitFetch ==
    /\ pc = "fetch_loop"
    /\ fetch_job \in FetchJobs
    /\ fetch_i = 1
    /\ fetch_cur = NoHtml
    /\ raw_store = <<>>
    /\ fetch_log = <<>>
    /\ NoAnalysis /\ NoStore /\ NoCache /\ NoWord /\ NoPage /\ NoList /\ NoHttp

NextFetch ==
    \/ FetchGet
    \/ FetchGetRaises
    \/ FetchRendered
    \/ FetchRenderedRaises
    \/ FetchSave
    \/ FetchReturn

SpecFetch == InitFetch /\ [][NextFetch]_vars

(***************************************************************************)
(* One call of HttpClient.get, with max_retries from 0 to MaxRetries, over  *)
(* a cache directory that earlier calls left empty or holding a URL.        *)
(***************************************************************************)
\* The statuses the server answers with, and the bodies.
Statuses == {200, 204, 403, 404, 429, 500, 503}
Bodies == {<<1>>, <<2>>}
HttpUrls == {"o", "v"}

\* The cache directory after earlier calls: empty, or with the body <<1>> of
\* some of the URLs.
RECURSIVE CacheHolding(_)
CacheHolding(keys) ==
    IF keys = {} THEN [dirs |-> {}, files |-> <<>>]
    ELSE LET k == CHOOSE x \in keys : TRUE
         IN  cache_set(CacheHolding(keys \ {k}), k, <<1>>)

\* cached = self.cache.get(url) is there: the fake Response is returned.
HttpCacheHit ==
    /\ pc = "http_call"
    /\ http_req.use_cache
    /\ cache_get(cache, http_req.url).some
    /\ http_result' = CachedResponse(cache_get(cache, http_req.url).bytes)
    /\ pc' = "http_done"
    /\ UNCHANGED <<aggVars, metricsVars, extractVars, scanVars, storeVars, cacheVars,
                   wordVars, pageVars, listVars, fetchVars, http_req, cache_at_call,
                   http_attempt, http_log, http_last_exc>>

\* No use of the cache, or nothing cached: on to the retry loop.
HttpCacheMiss ==
    /\ pc = "http_call"
    /\ ~(http_req.use_cache /\ cache_get(cache, http_req.url).some)
    /\ pc' = "http_loop"
    /\ UNCHANGED <<aggVars, metricsVars, extractVars, scanVars, storeVars, cacheVars,
                   wordVars, pageVars, listVars, fetchVars, httpVars>>

\* One attempt in which self.session.get answers.
HttpRequest ==
    /\ pc = "http_loop"
    /\ http_attempt < http_req.max_retries
    /\ \E status \in Statuses, body \in Bodies :
          /\ http_log' = Append(http_log, status)
          /\ IF status = 200
             THEN /\ cache' = IF ShouldCache(status, http_req.use_cache)
                              THEN cache_set(cache, http_req.url, body)
                              ELSE cache
                  /\ http_result' = Returned(status, body)
                  /\ pc' = "http_done"
                  /\ UNCHANGED <<http_attempt, http_last_exc>>
             ELSE IF status \in SoftBlocks
             THEN /\ http_attempt' = http_attempt + 1
                  /\ UNCHANGED <<pc, cache, http_last_exc, http_result>>
             ELSE IF RaisesForStatus(status)
             THEN /\ http_last_exc' = "HTTPError"
                  /\ http_attempt' = http_attempt + 1
                  /\ UNCHANGED <<pc, cache, http_result>>
             ELSE /\ http_result' = Returned(status, body)
                  /\ pc' = "http_done"
                  /\ UNCHANGED <<cache, http_attempt, http_last_exc>>
    /\ UNCHANGED <<aggVars, metricsVars, extractVars, scanVars, storeVars, cache_log,
                   wordVars, pageVars, listVars, fetchVars, http_req, cache_at_call>>

\* One attempt in which self.session.get raises: no response comes.
HttpRequestRaises ==
    /\ pc = "http_loop"
    /\ http_attempt < http_req.max_retries
    /\ http_log' = Append(http_log, 0)
    /\ http_last_exc' = "ConnectionError"
    /\ http_attempt' = http_attempt + 1
    /\ UNCHANGED <<pc, aggVars, metricsVars, extractVars, scanVars, storeVars, cacheVars,
                   wordVars, pageVars, listVars, fetchVars, http_req, cache_at_call,
                   http_result>>

\* The loop is over: raise last_exc, or RuntimeError when there is none.
HttpGiveUp ==
    /\ pc = "http_loop"
    /\ http_attempt >= http_req.max_retries
    /\ http_result' = Raised(IF http_last_exc # "none" THEN http_last_exc
                             ELSE "RuntimeError")
    /\ pc' = "http_done"
    /\ UNCHANGED <<aggVars, metricsVars, extractVars, scanVars, storeVars, cacheVars,
                   wordVars, pageVars, listVars, fetchVars, http_req, cache_at_call,
                   http_attempt, http_log, http_last_exc>>

InitHttp ==
    /\ pc = "http_call"
    /\ http_req \in [url : HttpUrls, use_cache : BOOLEAN, max_retries : 0..MaxRetries]
    /\ cache \in { CacheHolding(keys) : keys \in SUBSET HttpUrls }
    /\ cache_log = <<>>
    /\ cache_at_call = cache
    /\ http_attempt = 0
    /\ http_log = <<>>
    /\ http_last_exc = "none"
    /\ http_result = NoResult
    /\ NoAnalysis /\ NoStore /\ NoWord /\ NoPage /\ NoList /\ NoFetch

NextHttp ==
    \/ HttpCacheHit
    \/ HttpCacheMiss
    \/ HttpRequest
    \/ HttpRequestRaises
    \/ HttpGiveUp

SpecHttp == InitHttp /\ [][NextHttp]_vars

Spec == SpecAggregate

(***************************************************************************)
(* Properties of the aggregation.                                          *)
(***************************************************************************)
\* The sum of the rationals f[x], x in the finite set S.
RECURSIVE SumOver(_, _)
SumOver(f, S) ==
    IF S = {} THEN Num(0)
    ELSE LET x == CHOOSE x \in S : TRUE IN RAdd(f[x], SumOver(f, S \ {x}))

\* The calendar year of a date string: that of the datetime it was written from.
YearOf(s) == (CHOOSE dt \in DateTimes : iso_date(dt) = s).y

\* The date an article is to be bucketed under: issue_date, else published,
\* else none.
Bucket(r) ==
    IF r.issue_date # NoneStr THEN r.issue_date
    ELSE IF r.published # NoneStr THEN r.published
    ELSE NoneStr

\* The articles that belong to the per-issue row c.
Members(c) ==
    { i \in 1..Len(rows) : Bucket(rows[i]) = c.issue_date /\ rows[i].source = c.source }

Keyed == { i \in 1..Len(rows) : Bucket(rows[i]) # NoneStr }

MetricNames == {"gunning_fog", "dale_chall", "flesch_reading_ease"}

MetricOf(r, m) ==
    CASE m = "gunning_fog" -> r.gunning_fog
      [] m = "dale_chall" -> r.dale_chall
      [] m = "flesch_reading_ease" -> r.flesch_reading_ease

MeanCell(c, m) ==
    CASE m = "gunning_fog" -> c.gunning_fog_mean
      [] m = "dale_chall" -> c.dale_chall_mean
      [] m = "flesch_reading_ease" -> c.flesch_reading_ease_mean

WeightedCell(c, m) ==
    CASE m = "gunning_fog" -> c.gunning_fog_weighted_mean
      [] m = "dale_chall" -> c.dale_chall_weighted_mean
      [] m = "flesch_reading_ease" -> c.flesch_reading_ease_weighted_mean

IssueDone == pc \in {"per_issue", "per_year"}

\* C1: every article row is bucketed under its issue_date when present, else
\* under its published date; a row with neither is counted in no per-issue
\* row and hence stands behind no per-year row, while the per-article rows
\* still hold it.
C1_GroupingKey ==
    IssueDone =>
      /\ \A k \in 1..Len(per_issue_csv) :
           LET c == per_issue_csv[k]
           IN  /\ c.issue_date # NoneStr
               /\ Members(c) # {}
               /\ c.num_articles = <<Num(Cardinality(Members(c)))>>
      /\ \A i \in Keyed :
           \E k \in 1..Len(per_issue_csv) : i \in Members(per_issue_csv[k])
      /\ IntSum([k \in 1..Len(per_issue_csv) |-> per_issue_csv[k].num_articles[1].n])
           = Cardinality(Keyed)
      /\ pc = "per_year" =>
           \A j \in 1..Len(per_year_csv) :
             \E i \in Keyed : /\ YearOf(Bucket(rows[i])) = per_year_csv[j].year
                              /\ rows[i].source = per_year_csv[j].source

\* An article with only a published date and an article with no date at all:
\* one per-issue row, under the published date.
C1_Witness ==
    /\ pc = "per_year"
    /\ Len(rows) = 2
    /\ rows[1].issue_date = NoneStr /\ rows[1].published = Dec25
    /\ rows[2].issue_date = NoneStr /\ rows[2].published = NoneStr
    /\ Len(per_issue_csv) = 1
    /\ per_issue_csv[1].issue_date = Dec25
    /\ Len(per_year_csv) = 1

\* C3: in every per-issue group and for each metric, the unweighted mean is
\* the arithmetic mean of the present values only, and with no present value
\* both means are absent.
C3_AbsentExcluded ==
    IssueDone =>
      \A k \in 1..Len(per_issue_csv) : \A m \in MetricNames :
        LET c == per_issue_csv[k]
            P == { i \in Members(c) : MetricOf(rows[i], m) # None }
        IN  IF P = {}
            THEN MeanCell(c, m) = <<>> /\ WeightedCell(c, m) = <<>>
            ELSE MeanCell(c, m) =
                   << RDivInt(SumOver([i \in P |-> MetricOf(rows[i], m)], P),
                              Cardinality(P)) >>

\* A group of two articles, one without scores: the mean is the other's score.
C3_Witness ==
    /\ pc = "per_issue"
    /\ Len(per_issue_csv) = 1
    /\ per_issue_csv[1].num_articles = <<Num(2)>>
    /\ \E i \in 1..2 : rows[i].gunning_fog = None /\ rows[3 - i].gunning_fog = Num(5)
    /\ per_issue_csv[1].gunning_fog_mean = <<Num(5)>>

\* The bijections of 1..n.
Perms(n) == { f \in [1..n -> 1..n] : \A i \in 1..n : \E j \in 1..n : f[j] = i }

IssueKeyOf(c) == <<c.issue_date, c.source>>

Qualifying == { i \in 1..Len(wm_values) : wm_values[i][1] # None /\ wm_values[i][2] > 0 }

\* C2: the weighted mean is sum(value * weight) / sum(weight) over exactly
\* the entries with a present value and a weight > 0, and absent when no
\* entry qualifies; [(10,100),(20,0)] gives 10, and 5 and 15 with weights 10
\* and 90 give 14.
C2_WeightedMean ==
    pc = "returned" =>
      /\ IF Qualifying = {}
         THEN wm_result = None
         ELSE wm_result =
                RDivInt(SumOver([i \in Qualifying |->
                                   RMul(wm_values[i][1], Num(wm_values[i][2]))], Qualifying),
                        SumOver([i \in Qualifying |-> Num(wm_values[i][2])], Qualifying).n)
      /\ wm_values = << <<Num(10), 100>>, <<Num(20), 0>> >> => wm_result = Num(10)
      /\ wm_values = << <<Num(5), 10>>, <<Num(15), 90>> >> => wm_result = Num(14)

\* An absent entry with a weight, a zero-weight entry and a qualifying one:
\* only the last one counts.
C2_Witness ==
    /\ pc = "returned"
    /\ wm_values = << <<None, 90>>, <<Num(20), 0>>, <<Num(5), 10>> >>
    /\ wm_result = Num(5)

YearDone == pc = "per_year"

YearKeyOf(y) == <<y.year, y.source>>

YearMeanCell(y, m) ==
    CASE m = "gunning_fog" -> y.gunning_fog_mean
      [] m = "dale_chall" -> y.dale_chall_mean
      [] m = "flesch_reading_ease" -> y.flesch_reading_ease_mean

\* The per-issue rows of the calendar year and source of the per-year row y.
IssuesOf(y) ==
    { k \in 1..Len(per_issue_csv) :
        /\ YearOf(per_issue_csv[k].issue_date) = y.year
        /\ per_issue_csv[k].source = y.source }

\* C4: each per-year mean is the plain mean of the present per-issue
\* unweighted means of that year and source, there is one per-year row per
\* (year, source) among the per-issue rows, and the rows ascend by
\* (year, source).
C4_MeanOfIssueMeans ==
    YearDone =>
      /\ { YearKeyOf(per_year_csv[j]) : j \in 1..Len(per_year_csv) }
           = { <<YearOf(per_issue_csv[k].issue_date), per_issue_csv[k].source>> :
                 k \in 1..Len(per_issue_csv) }
      /\ \A j, l \in 1..Len(per_year_csv) :
           j < l => YearKeyLess(YearKeyOf(per_year_csv[j]), YearKeyOf(per_year_csv[l]))
      /\ \A j \in 1..Len(per_year_csv) : \A m \in MetricNames :
           LET y == per_year_csv[j]
               P == { k \in IssuesOf(y) : MeanCell(per_issue_csv[k], m) # <<>> }
           IN  IF P = {}
               THEN YearMeanCell(y, m) = <<>>
               ELSE YearMeanCell(y, m) =
                      << RDivInt(SumOver([k \in P |-> MeanCell(per_issue_csv[k], m)[1]], P),
                                 Cardinality(P)) >>

\* Issues of 2024 with means 10 (two articles) and 20 (one article), and an
\* issue without scores: the year's mean is 15.
C4_Witness ==
    /\ pc = "per_year"
    /\ Len(per_issue_csv) = 3
    /\ \A k \in 1..3 : per_issue_csv[k].source = magazine
    /\ \E k \in 1..3 : /\ per_issue_csv[k].issue_date = Jan01
                       /\ per_issue_csv[k].num_articles = <<Num(2)>>
                       /\ per_issue_csv[k].gunning_fog_mean = <<Num(10)>>
    /\ \E k \in 1..3 : /\ per_issue_csv[k].issue_date = Jan08
                       /\ per_issue_csv[k].num_articles = <<Num(1)>>
                       /\ per_issue_csv[k].gunning_fog_mean = <<Num(20)>>
    /\ \E k \in 1..3 : /\ per_issue_csv[k].issue_date = Dec25
                       /\ per_issue_csv[k].gunning_fog_mean = <<>>
    /\ Len(per_year_csv) = 2
    /\ per_year_csv[1].year = 2023 /\ per_year_csv[1].gunning_fog_mean = <<>>
    /\ per_year_csv[2].year = 2024 /\ per_year_csv[2].gunning_fog_mean = <<Num(15)>>

(***************************************************************************)
(* Properties of readability_metrics.                                      *)
(***************************************************************************)
MetricsDone == pc = "metrics_returned"

AllAbsent ==
    /\ metrics.gunning_fog = None
    /\ metrics.dale_chall = None
    /\ metrics.flesch_reading_ease = None

AllPresent ==
    /\ metrics.gunning_fog # None
    /\ metrics.dale_chall # None
    /\ metrics.flesch_reading_ease # None

\* C6: for an empty or whitespace-only text the result has num_words = 0,
\* num_sentences = 0 and no score, with or without textstat.
C6_BlankText ==
    (MetricsDone /\ \A i \in 1..Len(text) : text[i] \in Whitespace) =>
      /\ metrics.num_words = 0
      /\ metrics.num_sentences = 0
      /\ AllAbsent

\* A text of two blanks, with textstat imported.
C6_Witness ==
    /\ MetricsDone
    /\ textstat
    /\ text = <<" ", " ">>
    /\ metrics.num_words = 0 /\ metrics.num_sentences = 0

ExtractDone == pc = "extract_returned"

\* The <p> elements of the page inside element n whose trimmed text is
\* longer than one character.
QualifyingUnder(n) ==
    { j \in 1..Len(soup) :
        /\ soup[j].tag = "p"
        /\ Inside(soup, n, j)
        /\ Len(get_text(soup[j])) > 1 }

\* Element n is the candidate of the i-th selector: its first match.
IsCandidate(i, n) ==
    /\ Matches(_BODY_SELECTORS[i], soup[n])
    /\ \A m \in 1..(n - 1) : ~Matches(_BODY_SELECTORS[i], soup[m])

\* The i-th selector has a candidate with at least 2 qualifying paragraphs.
Yields(i) ==
    \E n \in 1..Len(soup) : IsCandidate(i, n) /\ Cardinality(QualifyingUnder(n)) >= 2

\* The trimmed texts of the paragraphs S in document order, a blank line
\* between them.
RECURSIVE BlankLineJoined(_)
BlankLineJoined(S) ==
    IF S = {} THEN <<>>
    ELSE LET j == CHOOSE x \in S : \A y \in S : x <= y
         IN  IF S = {j} THEN get_text(soup[j])
             ELSE get_text(soup[j]) \o <<"\n", "\n">> \o BlankLineJoined(S \ {j})

\* C8: the returned text is made of the qualifying paragraphs of the
\* candidate of the first selector, in priority order, whose candidate yields
\* at least 2 of them: no later selector and no body-wide collection changes it.
C8_FirstYieldingCandidate ==
    ExtractDone =>
        \A i \in 1..Len(_BODY_SELECTORS) : \A n \in 1..Len(soup) :
            ( /\ IsCandidate(i, n)
              /\ Cardinality(QualifyingUnder(n)) >= 2
              /\ \A k \in 1..(i - 1) : ~Yields(k) )
            => extracted = BlankLineJoined(QualifyingUnder(n))

\* A <div class="body__inner-container"> that holds an <article> of one
\* qualifying paragraph and a second qualifying paragraph: the article is
\* passed over and the two of the <div> are returned.
C8_Witness ==
    /\ ExtractDone
    /\ ~Yields(1)
    /\ \E m \in 1..Len(soup) :
          IsCandidate(1, m) /\ Cardinality(QualifyingUnder(m)) = 1
    /\ \E n \in 1..Len(soup) :
          /\ IsCandidate(7, n)
          /\ Cardinality(QualifyingUnder(n)) = 2
          /\ extracted = BlankLineJoined(QualifyingUnder(n))
    /\ Len(extracted) = 7

\* The root of the fallback: the <body> when the page has one, else the page.
FallbackRoot ==
    IF \E b \in 1..Len(soup) : soup[b].tag = "body"
    THEN CHOOSE b \in 1..Len(soup) : soup[b].tag = "body"
    ELSE 0

\* C9: when no selector's candidate yields at least 2 qualifying paragraphs,
\* the returned text is every qualifying paragraph under the body (under the
\* page when there is no body) in document order with a blank line between
\* them, and it is empty exactly when the page has no qualifying paragraph.
C9_FallbackAllParagraphs ==
    (ExtractDone /\ \A i \in 1..Len(_BODY_SELECTORS) : ~Yields(i)) =>
        /\ extracted = BlankLineJoined(QualifyingUnder(FallbackRoot))
        /\ (extracted = <<>>) <=> (QualifyingUnder(0) = {})

\* A page without a <body>: an <article> of one qualifying paragraph and a
\* second one outside it; both are returned.
C9_Witness ==
    /\ ExtractDone
    /\ \A i \in 1..Len(_BODY_SELECTORS) : ~Yields(i)
    /\ FallbackRoot = 0
    /\ \E n \in 1..Len(soup) : IsCandidate(1, n) /\ Cardinality(QualifyingUnder(n)) = 1
    /\ Cardinality(QualifyingUnder(0)) = 2
    /\ extracted = BlankLineJoined(QualifyingUnder(0))
    /\ extracted # <<>>

(***************************************************************************)
(* Claims about the scan of the persisted artifacts (SpecScan).             *)
(***************************************************************************)
ScanDone == pc = "scan_returned"

\* A *.json file that cannot be read or does not hold JSON.
IsBadArtifact(f) == f.dot_json /\ f.content \in {"not_json", "unreadable"}

\* The other *.json files of the i-th source, in walk order.
OtherArtifacts(i) ==
    SelectSeq(extracted_dir[i].files, LAMBDA f : f.dot_json /\ ~IsBadArtifact(f))

\* C10: whatever files are bad, the scan does not raise, and at its return
\* the rows are, one for one and in order, the artifacts of magazine then of
\* web that are neither unreadable nor invalid JSON.
C10_BadArtifactSkipped ==
    /\ ~scan.raised
    /\ ScanDone =>
         LET mag == OtherArtifacts(1)
             wb == OtherArtifacts(2)
         IN  /\ Len(rows) = Len(mag) + Len(wb)
             /\ \A i \in 1..Len(mag) :
                   /\ rows[i].source = magazine
                   /\ rows[i].url = mag[i].data.url
             /\ \A i \in 1..Len(wb) :
                   /\ rows[Len(mag) + i].source = web
                   /\ rows[Len(mag) + i].url = wb[i].data.url

\* A magazine file cut short ahead of a sound one, and an unreadable web
\* file: the scan returns the one row of the sound artifact.
C10_Witness ==
    /\ ScanDone
    /\ Len(extracted_dir[1].files) = 2
    /\ extracted_dir[1].files[1].content = "not_json"
    /\ extracted_dir[1].files[2].content = "object"
    /\ Len(extracted_dir[2].files) = 1
    /\ extracted_dir[2].files[1].content = "unreadable"
    /\ Len(rows) = 1
    /\ rows[1].url = extracted_dir[1].files[2].data.url

(***************************************************************************)
(* Claims about the artifacts the scraper writes (SpecStore).               *)
(***************************************************************************)
\* The paths of the store that hold an artifact of the url within the source.
ArtifactsOf(source, url) ==
    { q \in DOMAIN ex_store : ex_store[q].source = source /\ ex_store[q].url = url }

\* The last save of the url within the source.
LastSaveOf(source, url) ==
    CHOOSE i \in 1..Len(saved) :
        /\ saved[i].source = source /\ saved[i].url = url
        /\ \A j \in (i + 1)..Len(saved) :
              ~(saved[j].source = source /\ saved[j].url = url)

\* C11: after any sequence of saves, every url saved within a source has
\* exactly one artifact in the store, at the path of each of its saves, and
\* the artifact is the record of its last save.
C11_OneArtifactPerUrl ==
    \A i \in 1..Len(saved) :
        LET a == saved[i]
            last == saved[LastSaveOf(a.source, a.url)]
        IN  /\ ExPath(a) = ExPath(last)
            /\ ArtifactsOf(a.source, a.url) = {ExPath(last)}
            /\ ex_store[ExPath(last)] = Meta(last)

\* The urls saved within the source so far.
UrlsSaved(source) ==
    { saved[i].url : i \in { j \in 1..Len(saved) : saved[j].source = source } }

\* C19: within a source two articles of different urls are never written to
\* the same path, and the store holds as many artifacts of the source as
\* urls were saved within it.
C19_UrlIsKey ==
    /\ \A i, j \in 1..Len(saved) :
          (saved[i].source = saved[j].source /\ saved[i].url # saved[j].url)
          => ExPath(saved[i]) # ExPath(saved[j])
    /\ \A src \in {magazine, web} :
          Cardinality({ q \in DOMAIN ex_store : q.source = src })
              = Cardinality(UrlsSaved(src))

(***************************************************************************)
(* Claims about SimpleCache (SpecCache).                                    *)
(***************************************************************************)
\* The calls set(k, .) among the first n calls.
SetsBefore(k, n) ==
    { i \in 1..n : cache_log[i].op = "set" /\ cache_log[i].key = k }

\* C12: every get(k) returned the bytes of the latest set(k, v) before it,
\* whatever was set on other keys in between, and absent when no set(k, v)
\* came before it.
C12_GetReturnsLastSet ==
    \A n \in 1..Len(cache_log) :
        cache_log[n].op = "get" =>
            LET sets == SetsBefore(cache_log[n].key, n - 1)
            IN  IF sets = {} THEN ~cache_log[n].value.some
                ELSE LET last == CHOOSE i \in sets : \A j \in sets : j <= i
                     IN  cache_log[n].value = cache_log[last].value

\* set("o", b"\x01"), then a set of another key whose digest starts with the
\* same two digits, then get("o") returning b"\x01".
C12_Witness ==
    /\ Len(cache_log) = 3
    /\ cache_log[1] = [op |-> "set", key |-> "o", value |-> SomeBytes(<<1>>)]
    /\ cache_log[2].op = "set" /\ cache_log[2].key = "v"
    /\ cache_log[2].value = SomeBytes(<<2>>)
    /\ cache_log[3] = [op |-> "get", key |-> "o", value |-> SomeBytes(<<1>>)]

(***************************************************************************)
(* Claims about the sentence count (SpecMetrics).                           *)
(***************************************************************************)
\* The characters of text that are neither '.', '!', '?' nor whitespace and
\* come first of their kind in their segment between runs of '.', '!', '?':
\* one for each segment that holds more than whitespace.
SolidSegmentStarts ==
    LET solid(i) == text[i] \notin (SentenceChars \cup Whitespace)
    IN  { i \in 1..Len(text) :
            /\ solid(i)
            /\ \A j \in 1..(i - 1) :
                  solid(j) => \E k \in (j + 1)..(i - 1) : text[k] \in SentenceChars }

\* The characters of text that are not '.', '!' or '?' and start a segment:
\* one for each segment that is not empty.
SegmentStarts ==
    { i \in 1..Len(text) :
        /\ text[i] \notin SentenceChars
        /\ i = 1 \/ text[i - 1] \in SentenceChars }

\* C13 as stated: for every non-empty text, num_sentences is the number of
\* non-empty segments between runs of '.', '!', '?', and at least 1.
C13_SentencesAsStated ==
    (MetricsDone /\ path # "textstat" /\ text # <<>>) =>
        metrics.num_sentences = Max(1, Cardinality(SegmentStarts))

\* C13, amended: without textstat's answer, for every text that is not empty
\* once trimmed, num_sentences is the number of segments between runs of
\* '.', '!', '?' that hold more than whitespace, and at least 1; for a text
\* of whitespace only it is 0.
C13_SentenceCount ==
    (MetricsDone /\ path # "textstat") =>
        IF \A i \in 1..Len(text) : text[i] \in Whitespace
        THEN metrics.num_sentences = 0
        ELSE metrics.num_sentences = Max(1, Cardinality(SolidSegmentStarts))

\* "a. ." : two segments that are not empty, one of them blank; 1 sentence.
C13_Witness ==
    /\ MetricsDone
    /\ path = "native"
    /\ text = <<"a", ".", " ", ".">>
    /\ Cardinality(SegmentStarts) = 2
    /\ metrics.num_sentences = 1

(***************************************************************************)
(* Claims about the syllable estimate (SpecWord).                           *)
(***************************************************************************)
WordDone == pc = "word_returned"

\* The estimate by the rule: case put aside, one final e removed unless the
\* word ends in le, then the maximal runs of a, e, i, o, u, y counted, and 1
\* when there is none.
RuleEstimate ==
    LET w == [i \in 1..Len(word) |-> lower(word[i])]
        n == Len(w)
        final_e == n >= 1 /\ w[n] = "e" /\ ~(n >= 2 /\ w[n - 1] = "l")
        m == IF final_e THEN n - 1 ELSE n
        vowel(i) == w[i] \in {"a", "e", "i", "o", "u", "y"}
        run_starts == { i \in 1..m : vowel(i) /\ (i = 1 \/ ~vowel(i - 1)) }
    IN  Max(1, Cardinality(run_starts))

\* C14: for every word, of length 1 and 2 as well, the syllable estimate is
\* the one the rule gives, and the word counts as complex exactly when the
\* estimate is at least 3.
C14_SyllableRule ==
    WordDone =>
        /\ counted.syllables = RuleEstimate
        /\ counted.complex = (IF RuleEstimate >= 3 THEN 1 ELSE 0)

\* "'e": a word of 2 characters whose final e the code keeps and the rule
\* removes; both give 1.
C14_Witness ==
    /\ WordDone
    /\ word = <<"'", "e">>
    /\ counted = [syllables |-> 1, complex |-> 0]

(***************************************************************************)
(* Claims about the Dale-Chall score (SpecMetricsWords).                    *)
(***************************************************************************)
\* The first characters of the words of text.
WordStarts ==
    { i \in 1..Len(text) :
        text[i] \in WordChars /\ (i = 1 \/ text[i - 1] \notin WordChars) }

\* Those of the words longer than 3 characters.
DifficultStarts ==
    { i \in WordStarts :
        i + 3 <= Len(text) /\ \A k \in i..(i + 3) : text[k] \in WordChars }

\* C15: without textstat's answer, for a text of W >= 1 words, D of them
\* longer than 3 characters, and S sentences, the Dale-Chall score is
\* 0.1579 * pdw + 0.0496 * (W / S) with pdw = 100 * D / W, plus 3.6365
\* exactly when 20 * D > W.
C15_DaleChall ==
    (MetricsDone /\ path = "native" /\ WordStarts # {}) =>
        LET W == Cardinality(WordStarts)
            D == Cardinality(DifficultStarts)
            pdw == Rat(100 * D, W)
            base == RAdd(RMul(Rat(1579, 10000), pdw),
                         RMul(Rat(496, 10000), Rat(W, metrics.num_sentences)))
        IN  /\ metrics.num_words = W
            /\ metrics.dale_chall =
                 (IF 20 * D > W THEN RAdd(base, Rat(36365, 10000)) ELSE base)

\* 20 words in 2 sentences, 1 of them of four letters: pdw = 5.0 and the
\* score is 0.7895 + 0.496 = 1.2855, nothing added.
C15_Witness ==
    /\ MetricsDone
    /\ path = "native"
    /\ Cardinality(WordStarts) = 20
    /\ Cardinality(DifficultStarts) = 1
    /\ metrics.num_sentences = 2
    /\ metrics.dale_chall = Rat(12855, 10000)

(***************************************************************************)
(* Claims about extract_meta (SpecMeta).                                    *)
(***************************************************************************)
MetaDone == pc = "meta_returned"

\* The links of the breadcrumb navigation, wherever they sit inside it.
BreadcrumbLinks ==
    { j \in 1..Len(page.nodes) :
        /\ page.nodes[j].tag = "a"
        /\ \E i \in 1..(j - 1) :
              /\ page.nodes[i].tag = "nav" /\ page.nodes[i].cls = "breadcrumbs"
              /\ \A k \in (i + 1)..j : page.nodes[k].depth > page.nodes[i].depth }

\* C16: the section is the content of the article:section meta tag when it
\* is there and not empty; otherwise the text of the last link of the
\* breadcrumb navigation, in its own list item or not; and absent when there
\* is neither.
C16_SectionAsStated ==
    MetaDone =>
        IF page.section # Absent /\ page.section[1] # <<>>
        THEN page_meta.section = page.section
        ELSE IF BreadcrumbLinks # {}
        THEN LET last == CHOOSE j \in BreadcrumbLinks : \A k \in BreadcrumbLinks : k <= j
             IN  page_meta.section = <<Strip(page.nodes[last].strings[1])>>
        ELSE page_meta.section = Absent

(***************************************************************************)
(* Claims about get_issue_articles (SpecList).                              *)
(***************************************************************************)
ListDone == pc = "list_returned"

\* Whether url is base_url followed by a path of the article pattern.
IsArticleUrl(url) ==
    /\ StartsWith(url, base_url)
    /\ _MAG_ARTICLE_RE(SubSeq(url, Len(base_url) + 1, Len(url)))

\* C17: every URL listed for an issue matches the article URL pattern and
\* lies under the date path of that issue, so neither an article of another
\* issue nor a page outside the magazine is listed, and no URL is listed
\* twice.
C17_OnlyOwnIssueArticles ==
    ListDone =>
        /\ \A i \in 1..Len(listed) :
              /\ IsArticleUrl(listed[i])
              /\ StartsWith(listed[i], issue_url \o <<47>>)
        /\ \A i, j \in 1..Len(listed) : listed[i] = listed[j] => i = j

(***************************************************************************)
(* Claims about the fetch loops (SpecFetch).                                *)
(***************************************************************************)
\* The positions in the log of the events op of article i.
LogOf(op, i) ==
    { k \in 1..Len(fetch_log) : fetch_log[k].op = op /\ fetch_log[k].i = i }

RenderedTries(i) == LogOf("rendered", i) \cup LogOf("rendered_raised", i)

\* C18: for each article of a fetch whose plain html was extracted, the
\* rendered page is tried once, and before the record is saved, if the
\* extraction gave fewer than 50 words, and never otherwise; a rendered try
\* that raises does not end the fetch, and the record is saved all the same.
C18_RenderedFallback ==
    /\ \A i \in 1..Len(fetch_job.urls) : \A g \in LogOf("get", i) :
          /\ Cardinality(RenderedTries(i)) <= 1
          /\ \A r \in RenderedTries(i) :
                /\ fetch_log[g].words < MinWords
                /\ g < r
                /\ \A sv \in LogOf("save", i) : r < sv
          /\ (fetch_log[g].words < MinWords /\ RenderedTries(i) = {})
                => pc = "fetch_render" /\ fetch_i = i
          /\ LogOf("save", i) = {} => fetch_i = i /\ pc \in {"fetch_render", "fetch_save"}
          /\ fetch_i > i => Cardinality(LogOf("save", i)) = 1
    /\ pc = "fetch_raised" => fetch_log[Len(fetch_log)].op = "get_raised"
    /\ pc = "fetch_returned" =>
          \A i \in 1..Len(fetch_job.urls) :
              /\ Cardinality(LogOf("save", i)) = 1
              /\ \E k \in 1..Len(saved) : saved[k].url = fetch_job.urls[i]

\* A fetch has returned in which the rendered try of the first article, of
\* 49 words, raised and that of the second, of none, did not; a record of
\* each was saved.
C18_Witness ==
    /\ pc = "fetch_returned"
    /\ Len(fetch_job.urls) = 2
    /\ \E g \in LogOf("get", 1) : fetch_log[g].words = MinWords - 1
    /\ LogOf("rendered_raised", 1) # {}
    /\ \E g \in LogOf("get", 2) : fetch_log[g].words = 0
    /\ LogOf("rendered", 2) # {}
    /\ Len(saved) = 2

(***************************************************************************)
(* Claims about HttpClient.get (SpecHttp).                                  *)
(***************************************************************************)
HttpDone == pc = "http_done"

\* Whether the cache held the URL when get was called with use_cache.
HeldAtCall == http_req.use_cache /\ cache_get(cache_at_call, http_req.url).some

\* C20: get makes no request when use_cache is true and the cache holds the
\* URL; otherwise it makes at most max_retries requests, none after the
\* first response of status 200, and then has returned a response or
\* raised; the cache is written only with the body of a status-200 response
\* under use_cache; and no response of status 403, 429 or 503 is returned.
C20_GetContract ==
    /\ HeldAtCall => http_log = <<>>
    /\ Len(http_log) <= http_req.max_retries
    /\ \A k \in 1..Len(http_log) :
          http_log[k] = 200 =>
              /\ k = Len(http_log)
              /\ HttpDone
              /\ http_result.kind = "returned" /\ http_result.status = 200
    /\ HttpDone => http_result.kind \in {"returned", "raised"}
    /\ http_result.kind = "returned" => http_result.status \notin SoftBlocks
    /\ cache # cache_at_call =>
          /\ http_req.use_cache
          /\ http_log # <<>> /\ http_log[Len(http_log)] = 200
          /\ cache = cache_set(cache_at_call, http_req.url, http_result.content)

\* get, called with use_cache and the URL not cached, has returned the third
\* response, of status 200, after a 503 and an exception, and cached its body.
C20_Witness ==
    /\ HttpDone
    /\ http_req.use_cache
    /\ http_log = <<503, 0, 200>>
    /\ http_req.max_retries = 3
    /\ cache_get(cache, http_req.url) = SomeBytes(http_result.content)
    /\ ~cache_get(cache_at_call, http_req.url).some

====
